---------------------------- MODULE Spec2Model ----------------------------
(***************************************************************************)
(* clinbox: a model of the credential and token manager (src/gmail.rs),   *)
(* of the interactive triage session controller (src/main.rs), of the      *)
(* batch fetch (src/gmail.rs), of the account commands (src/main.rs,       *)
(* src/config.rs) and of message parsing with the texts derived from a     *)
(* message (src/gmail.rs, src/email.rs, src/ai.rs).  Each part has its own *)
(* specification over the shared variables.                                *)
(* The account commands start from the default configuration;              *)
(* the migration of a legacy configuration file is not modelled.           *)
(*                                                                         *)
(* The program is single threaded; every network call and every wait for a *)
(* key press is a suspension point, and each action below is the code that *)
(* runs between two suspension points.  The local file system is taken to  *)
(* be reliable (a write that is reached succeeds); the network, the token  *)
(* endpoint, the mail API, the AI backend and the user are free.           *)
(***************************************************************************)
EXTENDS Integers, Sequences, FiniteSets, TLC

(***************************************************************************)
(* Bounds of the model.                                                    *)
(***************************************************************************)
MaxTime == 3        \* the clock takes the values 0..MaxTime
MaxIssued == 3      \* access tokens the token endpoint issues in one run
MaxExpiresIn == 1   \* expires_in of a token response is in 0..MaxExpiresIn
MaxBatch == 3       \* emails in the fetched batch
MaxStay == 2        \* decisions on one email that return to its action prompt
MaxListed == 3      \* messages the provider lists for one fetch

Accounts == {"personal", "work"}

(***************************************************************************)
(* Option<T>: None is the empty set, Some(x) the singleton.                *)
(***************************************************************************)
None == {}
Some(x) == {x}
Unwrap(o) == CHOOSE x \in o : TRUE

\* char::len_utf8; "eacute" stands for the two-byte letter U+00E9
len_utf8(c) == IF c = "eacute" THEN 2 ELSE 1

(***************************************************************************)
(* gmail.rs: the token record of an account, as the file                   *)
(* tokens/<id>.json holds it.                                              *)
(***************************************************************************)
NoFile == [kind |-> "none"]
Unparseable == [kind |-> "corrupt"]
StoredToken(access, refresh, exp) ==
    [kind |-> "token", access_token |-> access, refresh_token |-> refresh,
     expires_at |-> exp]

RefreshTokens == {"rt1", "rt2"}
ExpiresIn == {None} \cup {Some(s) : s \in 0..MaxExpiresIn}

VARIABLES
    tokens,     \* account id -> token record on disk
    now,        \* Utc::now()
    issued,     \* number of access tokens the token endpoint has issued
    auth,       \* the running (or last) get_valid_token call
    emails,     \* run_interactive: the fetched batch
    idx,        \* run_interactive: 1-based position in the batch (current)
    pc,         \* run_interactive: the suspension point the session is at
    analysis,   \* run_interactive: Option<EmailAnalysis> of the current email
    draft,      \* run_interactive: the reply draft on screen
    stats,      \* run_interactive: Stats
    tasks,      \* TaskStore.tasks, as persisted
    mailbox,    \* ids the mail API has archived, trashed and replied to
    calls,      \* requests for the current email: sent, ok, err per operation
    elog,       \* events since the last decision on the current email
    presented,  \* ids of the emails drawn so far, in order
    stay,       \* returns to the action prompt of the current email
    shown,      \* the end-of-session summary has been drawn
    config,     \* config.json: gmail.accounts and gmail.default_account
    acmd,       \* the running (or last) account command
    fetch,      \* the running (or last) fetch_unread / fetch_latest call
    raw,        \* the message the mail API returned (MessageResponse)
    parsed,     \* Option<Email>: what parse_message made of it
    prompt,     \* the excerpts built for analyze_email and generate_reply
    reply       \* Option<subject>: the subject send_reply built

tokenVars == <<tokens, now, issued, auth>>

sessVars == <<emails, idx, pc, analysis, draft, stats, tasks, mailbox, calls,
              elog, presented, stay, shown>>

acctVars == <<config, acmd>>

fetchVars == <<fetch>>

msgVars == <<raw, parsed, prompt, reply>>

vars == <<tokens, now, issued, auth, emails, idx, pc, analysis, draft, stats,
          tasks, mailbox, calls, elog, presented, stay, shown, config, acmd,
          fetch, raw, parsed, prompt, reply>>

IdleAuth ==
    [pc |-> "idle", account |-> "personal",
     entry |-> NoFile,          \* the token record found at the call
     entry_time |-> 0,          \* Utc::now() at the expiry test
     refresh |-> "none",        \* outcome of refresh_token: none, ok, err
     refresh_calls |-> 0,       \* refresh grants sent
     oauth_runs |-> 0,          \* interactive authorizations started
     exchange_calls |-> 0,      \* code exchange requests sent
     writes |-> 0,              \* writes of the token record
     request_line |-> None,     \* the callback's request line, once read
     response |-> None,         \* the successful token response
     result |-> None,           \* the access token returned
     source |-> "none",         \* stored, refresh or oauth
     error |-> "none"]

(***************************************************************************)
(* main.rs: Stats, the email batch, the analysis and the task record.      *)
(***************************************************************************)
Stats(a, d, t, s, r) ==
    [archived |-> a, deleted |-> d, tasks_created |-> t, skipped |-> s,
     replied |-> r]

total_without_replied(st) ==
    st.archived + st.deleted + st.tasks_created + st.skipped

total(st) ==
    st.archived + st.deleted + st.tasks_created + st.skipped + st.replied

\* main.rs 602-609 and 618-625: the numbers handed to draw_summary
draw_summary_args(st) ==
    <<total(st), st.archived, st.deleted, st.tasks_created, st.skipped,
      st.replied>>

Subjects == <<"Invoice due", "Re: lunch", "Build failed", "RE: status">>

Email(i) == [id |-> i, subject |-> Subjects[((i - 1) % Len(Subjects)) + 1]]

Batch(n) == [i \in 1..n |-> Email(i)]

EmailAnalysis(summary, suggested_action) ==
    [summary |-> summary, suggested_action |-> suggested_action]

AnalysisResults ==
    {EmailAnalysis("resumen", None), EmailAnalysis("resumen", Some("pagar"))}

Drafts == {"Gracias."}

Task(title, description, email_id, email_subject) ==
    [title |-> title, description |-> description,
     source_email_id |-> email_id, source_email_subject |-> email_subject,
     completed |-> FALSE]

Ops == {"analyze", "archive", "trash", "draft", "send"}

NoCalls == [op \in Ops |-> [sent |-> 0, ok |-> 0, err |-> 0]]

EmptyMailbox == [archived |-> {}, trashed |-> {}, replied |-> {}]

Sent(c, op) == [c EXCEPT ![op].sent = @ + 1]
Ok(c, op) == [c EXCEPT ![op].ok = @ + 1]
Err(c, op) == [c EXCEPT ![op].err = @ + 1]

IdleSession ==
    /\ emails = << >>
    /\ idx = 0
    /\ pc = "idle"
    /\ analysis = None
    /\ draft = None
    /\ stats = Stats(0, 0, 0, 0, 0)
    /\ tasks = << >>
    /\ mailbox = EmptyMailbox
    /\ calls = NoCalls
    /\ elog = << >>
    /\ presented = << >>
    /\ stay = 0
    /\ shown = FALSE

(***************************************************************************)
(* config.rs, Config::default: no account and no default account.  An      *)
(* account is represented by its id; accounts is the Vec in its order.     *)
(***************************************************************************)
GmailConfig(accounts, default_account) ==
    [accounts |-> accounts, default_account |-> default_account]

IdleCommand == [pc |-> "idle", op |-> "none", id |-> "", result |-> "none"]

IdleAccounts ==
    /\ config = GmailConfig(<< >>, None)
    /\ acmd = IdleCommand

IdleFetch ==
    fetch = [pc |-> "idle", kind |-> "none", max_results |-> 0,
             listed |-> << >>, pos |-> 0, emails |-> << >>, failed |-> {},
             status |-> "none", report |-> "none"]

NoPrompt == [analysis |-> None, reply |-> None]

\* no message is being parsed
IdleMessage ==
    /\ raw = [subject |-> << >>, snippet |-> << >>, payload |-> None]
    /\ parsed = None
    /\ prompt = NoPrompt
    /\ reply = None

IdleTokens ==
    /\ tokens = [a \in Accounts |-> NoFile]
    /\ now = 0
    /\ issued = 0
    /\ auth = IdleAuth

InitToken ==
    /\ tokens \in [Accounts -> {NoFile, Unparseable}]
    /\ now = 0
    /\ issued = 0
    /\ auth = IdleAuth
    /\ IdleSession
    /\ IdleAccounts
    /\ IdleFetch
    /\ IdleMessage


(***************************************************************************)
(* gmail.rs, get_valid_token: a missing expiry counts as expired.          *)
(***************************************************************************)
is_expired_none_valid(stored, t) ==
    IF stored.expires_at = None THEN FALSE ELSE Unwrap(stored.expires_at) < t

is_expired_inverted(stored, t) ==
    IF stored.expires_at = None THEN TRUE ELSE Unwrap(stored.expires_at) > t

is_expired(stored, t) ==
    IF stored.expires_at = None THEN TRUE ELSE Unwrap(stored.expires_at) < t

(***************************************************************************)
(* gmail.rs, refresh_token and oauth_flow: expires_in seconds from now.    *)
(***************************************************************************)
expires_at_from(expires_in, t) ==
    IF expires_in = None THEN None ELSE Some(t + Unwrap(expires_in))

(***************************************************************************)
(* gmail.rs, refresh_token: the record written after a successful grant.   *)
(* The refresh token sent in the request is carried forward.               *)
(***************************************************************************)
refreshed_record_dropping(access, refresh_token, expires_in, t) ==
    StoredToken(access, "", expires_at_from(expires_in, t))

refreshed_record(access, refresh_token, expires_in, t) ==
    StoredToken(access, refresh_token, expires_at_from(expires_in, t))

(***************************************************************************)
(* gmail.rs, oauth_flow: the record written after the code exchange; a     *)
(* response without refresh token stores the empty string.                 *)
(***************************************************************************)
exchanged_record(access, refresh_opt, expires_in, t) ==
    StoredToken(access,
                IF refresh_opt = None THEN "" ELSE Unwrap(refresh_opt),
                expires_at_from(expires_in, t))

(***************************************************************************)
(* The request line of the callback connection.  A line is the sequence of *)
(* its whitespace separated words; a word is the sequence of its '?'       *)
(* separated segments; a segment is the sequence of its '&' separated      *)
(* parameters; a parameter is name, or name=value.                         *)
(***************************************************************************)
Param(name, value) == [name |-> name, value |-> value]
Word(name) == << << Param(name, None) >> >>

RequestLines ==
    { << >>,
      << Word("GET") >>,
      << Word("GET"), << <<Param("/", None)>> >>, Word("HTTP/1.1") >>,
      << Word("GET"),
         << <<Param("/", None)>>, <<Param("error", Some("access_denied"))>> >>,
         Word("HTTP/1.1") >>,
      << Word("GET"),
         << <<Param("/", None)>>, <<Param("code", None)>> >>,
         Word("HTTP/1.1") >>,
      << Word("GET"),
         << <<Param("/", None)>>,
            <<Param("code", Some("c1")), Param("scope", Some("mail"))>> >>,
         Word("HTTP/1.1") >>,
      << Word("GET"),
         << <<Param("/", None)>>,
            <<Param("scope", Some("mail")), Param("code", Some("c2")),
              Param("code", Some("c1"))>> >>,
         Word("HTTP/1.1") >>,
      << Word("GET"),
         << <<Param("/", None)>>, <<Param("state", Some("x"))>>,
            <<Param("code", Some("c1"))>> >>,
         Word("HTTP/1.1") >>,
      << Word("GET"),
         << <<Param("/", None)>>, <<Param("code", Some("%FF"))>> >>,
         Word("HTTP/1.1") >> }

starts_with_code(p) == p.name = "code" /\ p.value # None

(***************************************************************************)
(* gmail.rs, oauth_flow: the second word of the request line, its part     *)
(* after the first '?', the first parameter starting with "code=".         *)
(***************************************************************************)
extract_code_or_default(request_line) ==
    IF Len(request_line) < 2 THEN Some("")
    ELSE LET path == request_line[2] IN
         IF Len(path) < 2 THEN Some("")
         ELSE LET query == path[2]
                  hits == {i \in 1..Len(query) : starts_with_code(query[i])}
              IN IF hits = {} THEN Some("")
                 ELSE LET first == CHOOSE i \in hits : \A j \in hits : i <= j
                      IN query[first].value

extract_code(request_line) ==
    IF Len(request_line) < 2 THEN None
    ELSE LET path == request_line[2] IN
         IF Len(path) < 2 THEN None
         ELSE LET query == path[2]
                  hits == {i \in 1..Len(query) : starts_with_code(query[i])}
              IN IF hits = {} THEN None
                 ELSE LET first == CHOOSE i \in hits : \A j \in hits : i <= j
                      IN query[first].value

(***************************************************************************)
(* gmail.rs, oauth_flow: urlencoding::decode fails on a code whose         *)
(* percent-decoded bytes are not UTF-8.                                    *)
(***************************************************************************)
decode_ok(code) == code # "%FF"

NewCall(a, entry, t) ==
    [IdleAuth EXCEPT !.account = a, !.entry = entry, !.entry_time = t]

(***************************************************************************)
(* gmail.rs, get_valid_token: "if let Ok(..) = refresh_token(..)" drops    *)
(* the error of a failed refresh and falls through to oauth_flow.          *)
(***************************************************************************)
on_refresh_error_propagated(call) ==
    [call EXCEPT !.pc = "failed", !.refresh = "err", !.error = "refresh"]

on_refresh_error(call) ==
    [call EXCEPT !.pc = "authorizing", !.refresh = "err",
                 !.oauth_runs = @ + 1]

TokenResponse(access, refresh_opt, expires_in, t) ==
    [access_token |-> access, refresh_token |-> refresh_opt,
     expires_in |-> expires_in, at |-> t]

(***************************************************************************)
(* gmail.rs 67-68: read_to_string and serde_json::from_str propagate their *)
(* error with ?, before the expiry test.                                   *)
(***************************************************************************)
on_unreadable_record_reauthorizing(call) ==
    [call EXCEPT !.pc = "authorizing", !.oauth_runs = 1]

on_unreadable_record(call) ==
    [call EXCEPT !.pc = "failed", !.error = "parse"]

(***************************************************************************)
(* gmail.rs, get_valid_token up to its first suspension point.             *)
(***************************************************************************)
get_valid_token(a) ==
    /\ auth.pc \in {"idle", "authorized", "failed"}
    /\ issued < MaxIssued
    /\ LET stored == tokens[a]
           call == NewCall(a, stored, now)
       IN auth' =
            IF stored.kind = "none"
            THEN [call EXCEPT !.pc = "authorizing", !.oauth_runs = 1]
            ELSE IF stored.kind = "corrupt"
            THEN on_unreadable_record(call)
            ELSE IF ~ is_expired(stored, now)
            THEN [call EXCEPT !.pc = "authorized",
                              !.result = Some(stored.access_token),
                              !.source = "stored"]
            ELSE [call EXCEPT !.pc = "refreshing", !.refresh_calls = 1]
    /\ UNCHANGED <<tokens, now, issued>>
    /\ UNCHANGED <<sessVars, acctVars, fetchVars, msgVars>>

(***************************************************************************)
(* gmail.rs, refresh_token from the response of the token endpoint on, and *)
(* the fall through of get_valid_token into oauth_flow when it failed.     *)
(***************************************************************************)
refresh_token_response ==
    /\ auth.pc = "refreshing"
    /\ \E outcome \in {"ok", "network", "status", "json"},
          r \in {None} \cup {Some(t) : t \in RefreshTokens}, e \in ExpiresIn :
         IF outcome = "ok"
         THEN /\ issued' = issued + 1
              /\ tokens' = [tokens EXCEPT ![auth.account] =
                    refreshed_record(issued + 1, auth.entry.refresh_token, e, now)]
              /\ auth' = [auth EXCEPT !.pc = "authorized", !.refresh = "ok",
                                      !.writes = @ + 1,
                                      !.response =
                                          Some(TokenResponse(issued + 1, r, e, now)),
                                      !.result = Some(issued + 1),
                                      !.source = "refresh"]
         ELSE /\ auth' = on_refresh_error(auth)
              /\ UNCHANGED <<tokens, issued>>
    /\ UNCHANGED now
    /\ UNCHANGED <<sessVars, acctVars, fetchVars, msgVars>>

(***************************************************************************)
(* gmail.rs, oauth_flow from the accepted connection to the exchange       *)
(* request.                                                                *)
(***************************************************************************)
oauth_flow_accept ==
    /\ auth.pc = "authorizing"
    /\ \E line \in RequestLines :
         LET code == extract_code(line)
             read == [auth EXCEPT !.request_line = Some(line)] IN
         auth' = IF code = None
                 THEN [read EXCEPT !.pc = "failed", !.error = "no_code"]
                 ELSE IF ~ decode_ok(Unwrap(code))
                 THEN [read EXCEPT !.pc = "failed", !.error = "decode"]
                 ELSE [read EXCEPT !.pc = "exchanging",
                                   !.exchange_calls = @ + 1]
    /\ UNCHANGED <<tokens, now, issued>>
    /\ UNCHANGED <<sessVars, acctVars, fetchVars, msgVars>>

(***************************************************************************)
(* gmail.rs, oauth_flow from the response of the code exchange on.         *)
(***************************************************************************)
oauth_flow_exchange_response ==
    /\ auth.pc = "exchanging"
    /\ \E outcome \in {"ok", "network", "status", "json"},
          r \in {None} \cup {Some(t) : t \in RefreshTokens}, e \in ExpiresIn :
         IF outcome = "ok"
         THEN /\ issued' = issued + 1
              /\ tokens' = [tokens EXCEPT ![auth.account] =
                    exchanged_record(issued + 1, r, e, now)]
              /\ auth' = [auth EXCEPT !.pc = "authorized",
                                      !.writes = @ + 1,
                                      !.response =
                                          Some(TokenResponse(issued + 1, r, e, now)),
                                      !.result = Some(issued + 1),
                                      !.source = "oauth"]
         ELSE /\ auth' = [auth EXCEPT !.pc = "failed", !.error = "exchange"]
              /\ UNCHANGED <<tokens, issued>>
    /\ UNCHANGED now
    /\ UNCHANGED <<sessVars, acctVars, fetchVars, msgVars>>

(***************************************************************************)
(* Time passes, also while a request is in flight.                         *)
(***************************************************************************)
Tick ==
    /\ now < MaxTime
    /\ now' = now + 1
    /\ UNCHANGED <<tokens, issued, auth>>
    /\ UNCHANGED <<sessVars, acctVars, fetchVars, msgVars>>

NextToken ==
    \/ \E a \in Accounts : get_valid_token(a)
    \/ refresh_token_response
    \/ oauth_flow_accept
    \/ oauth_flow_exchange_response
    \/ Tick

SpecToken == InitToken /\ [][NextToken]_vars


(***************************************************************************)
(* main.rs, run_interactive: the shapes a step of the session takes.  Each *)
(* sets idx, pc, analysis, draft, calls, elog, presented, stay and shown.  *)
(***************************************************************************)

\* top of the for loop for the email at position i: draw it without
\* analysis and send the analysis request
present(i) ==
    /\ idx' = i
    /\ pc' = "analyzing"
    /\ analysis' = None
    /\ draft' = None
    /\ calls' = Sent(NoCalls, "analyze")
    /\ elog' = <<"draw_email", "analyze_call">>
    /\ presented' = Append(presented, emails[i].id)
    /\ stay' = 0
    /\ shown' = shown

summary_not_drawn(c, log) ==
    /\ pc' = "done"
    /\ calls' = c
    /\ elog' = log
    /\ UNCHANGED <<idx, analysis, draft, presented, stay, shown>>

\* draw_summary, then wait_for_key
summary(c, log) ==
    /\ pc' = "summary"
    /\ calls' = c
    /\ elog' = Append(log, "draw_summary")
    /\ shown' = TRUE
    /\ UNCHANGED <<idx, analysis, draft, presented, stay>>

advance_skipping(c, log) ==
    IF idx + 1 < Len(emails) THEN present(idx + 2) ELSE summary(c, log)

\* break out of the action loop: the next email, or the final summary
advance(c, log) ==
    IF idx < Len(emails) THEN present(idx + 1) ELSE summary(c, log)

\* the action loop iterates: wait_for_action again for the same email
same_email(c, log) ==
    /\ pc' = "waiting"
    /\ draft' = None
    /\ calls' = c
    /\ elog' = Append(log, "prompt")
    /\ stay' = stay + 1
    /\ UNCHANGED <<idx, analysis, presented, shown>>

\* a request is sent or a prompt is drawn, and the session waits at p
suspend(p, c, log) ==
    /\ pc' = p
    /\ calls' = c
    /\ elog' = log
    /\ UNCHANGED <<idx, analysis, draft, presented, stay, shown>>

abort_swallowed(c, log) ==
    same_email(c, log)

\* the error is propagated with ? and run_interactive returns Err
abort(c, log) ==
    /\ pc' = "error"
    /\ calls' = c
    /\ elog' = log
    /\ UNCHANGED <<idx, analysis, draft, presented, stay, shown>>

email == emails[idx]

(***************************************************************************)
(* main.rs 449-468: an empty batch returns at once; otherwise the loop     *)
(* starts with the first email.                                            *)
(***************************************************************************)
start_triage ==
    /\ pc = "fetched"
    /\ IF Len(emails) = 0
       THEN /\ pc' = "done"
            /\ UNCHANGED <<idx, analysis, draft, calls, elog, presented, stay,
                           shown>>
       ELSE present(1)
    /\ UNCHANGED <<emails, stats, tasks, mailbox>>
    /\ UNCHANGED <<tokenVars, acctVars, fetchVars, msgVars>>

(***************************************************************************)
(* main.rs 473-478: the Err arm of the match on analyze_email: the error   *)
(* is drawn, the analysis is None and the loop body goes on.               *)
(***************************************************************************)
analysis_failed_aborting(c, log) ==
    /\ analysis' = None
    /\ pc' = "error"
    /\ calls' = c
    /\ elog' = log
    /\ UNCHANGED <<idx, draft, presented, stay, shown>>

analysis_failed(c, log) ==
    /\ analysis' = None
    /\ pc' = "waiting"
    /\ calls' = c
    /\ elog' = log \o <<"draw_message", "draw_email", "prompt">>
    /\ UNCHANGED <<idx, draft, presented, stay, shown>>

(***************************************************************************)
(* main.rs 471-486: the analysis resolves.  The email is drawn again, with *)
(* the analysis when there is one, and wait_for_action is entered.         *)
(***************************************************************************)
analyze_email_response ==
    /\ pc = "analyzing"
    /\ \/ \E a \in AnalysisResults :
            /\ analysis' = Some(a)
            /\ pc' = "waiting"
            /\ calls' = Ok(calls, "analyze")
            /\ elog' = elog \o <<"analyze_ok", "draw_email", "prompt">>
            /\ UNCHANGED <<idx, draft, presented, stay, shown>>
       \/ analysis_failed(Err(calls, "analyze"), Append(elog, "analyze_err"))
    /\ UNCHANGED <<emails, stats, tasks, mailbox>>
    /\ UNCHANGED <<tokenVars, acctVars, fetchVars, msgVars>>

(***************************************************************************)
(* main.rs 489-490 and 496-497: Action::Archive and Action::Delete send    *)
(* the mutation.                                                           *)
(***************************************************************************)
action_archive ==
    /\ pc = "waiting"
    /\ suspend("archiving", Sent(calls, "archive"), <<"archive_call">>)
    /\ UNCHANGED <<emails, stats, tasks, mailbox>>
    /\ UNCHANGED <<tokenVars, acctVars, fetchVars, msgVars>>

action_delete ==
    /\ pc = "waiting"
    /\ suspend("deleting", Sent(calls, "trash"), <<"trash_call">>)
    /\ UNCHANGED <<emails, stats, tasks, mailbox>>
    /\ UNCHANGED <<tokenVars, acctVars, fetchVars, msgVars>>

(***************************************************************************)
(* main.rs 493, 500: the counter an archived or deleted email increments.  *)
(***************************************************************************)
count_archived_as_deleted(st) == [st EXCEPT !.deleted = @ + 1]

count_archived(st) == [st EXCEPT !.archived = @ + 1]

count_deleted_twice(st) == [st EXCEPT !.deleted = @ + 2]

count_deleted(st) == [st EXCEPT !.deleted = @ + 1]

(***************************************************************************)
(* main.rs 490-495: archive returned.                                      *)
(***************************************************************************)
archive_response ==
    /\ pc = "archiving"
    /\ \/ /\ mailbox' = [mailbox EXCEPT !.archived = @ \cup {email.id}]
          /\ stats' = count_archived(stats)
          /\ advance(Ok(calls, "archive"), Append(elog, "archive_ok"))
       \/ /\ abort(Err(calls, "archive"), Append(elog, "archive_err"))
          /\ UNCHANGED <<stats, mailbox>>
    /\ UNCHANGED <<emails, tasks>>
    /\ UNCHANGED <<tokenVars, acctVars, fetchVars, msgVars>>

(***************************************************************************)
(* main.rs 497-502: delete returned.                                       *)
(***************************************************************************)
delete_response ==
    /\ pc = "deleting"
    /\ \/ /\ mailbox' = [mailbox EXCEPT !.trashed = @ \cup {email.id}]
          /\ stats' = count_deleted(stats)
          /\ advance(Ok(calls, "trash"), Append(elog, "trash_ok"))
       \/ /\ abort(Err(calls, "trash"), Append(elog, "trash_err"))
          /\ UNCHANGED <<stats, mailbox>>
    /\ UNCHANGED <<emails, tasks>>
    /\ UNCHANGED <<tokenVars, acctVars, fetchVars, msgVars>>

(***************************************************************************)
(* main.rs 503-509: the title shown in the task prompt.                    *)
(***************************************************************************)
task_title_from_summary(an, e) ==
    IF an # None THEN Unwrap(an).summary ELSE e.subject

task_title(an, e) ==
    IF an # None /\ Unwrap(an).suggested_action # None
    THEN Unwrap(Unwrap(an).suggested_action)
    ELSE e.subject

(***************************************************************************)
(* main.rs 514-519: the description of the task.                           *)
(***************************************************************************)
task_description(an) ==
    Some(IF an # None THEN Unwrap(an).summary ELSE "")

(***************************************************************************)
(* main.rs 503-511: Action::Task draws the prompt and waits for Enter or   *)
(* Esc.                                                                    *)
(***************************************************************************)
action_task ==
    /\ pc = "waiting"
    /\ suspend("task_confirm", calls, <<"draw_task_input">>)
    /\ UNCHANGED <<emails, stats, tasks, mailbox>>
    /\ UNCHANGED <<tokenVars, acctVars, fetchVars, msgVars>>

(***************************************************************************)
(* main.rs 511-528: the break at line 528 is outside the if, so Esc in the *)
(* task prompt leaves the action loop as Enter does.                       *)
(***************************************************************************)
on_task_cancel(c, log) ==
    advance(c, log)

(***************************************************************************)
(* main.rs 511-523: wait_for_confirm returned.                             *)
(***************************************************************************)
wait_for_confirm ==
    /\ pc = "task_confirm"
    /\ \/ /\ tasks' = Append(tasks,
                        Task(task_title(analysis, email),
                             task_description(analysis),
                             Some(email.id), Some(email.subject)))
          /\ suspend("task_archiving", Sent(calls, "archive"),
                     elog \o <<"confirm", "task_add", "archive_call">>)
       \/ /\ on_task_cancel(calls, Append(elog, "cancel"))
          /\ UNCHANGED tasks
    /\ UNCHANGED <<emails, stats, mailbox>>
    /\ UNCHANGED <<tokenVars, acctVars, fetchVars, msgVars>>

(***************************************************************************)
(* main.rs 526: the counter a created task increments.                     *)
(***************************************************************************)
count_task_created_as_archived(st) == [st EXCEPT !.archived = @ + 1]

count_task_created(st) == [st EXCEPT !.tasks_created = @ + 1]

(***************************************************************************)
(* main.rs 523-528: the archive that follows task_store.add returned.      *)
(***************************************************************************)
task_archive_response ==
    /\ pc = "task_archiving"
    /\ \/ /\ mailbox' = [mailbox EXCEPT !.archived = @ \cup {email.id}]
          /\ stats' = count_task_created(stats)
          /\ advance(Ok(calls, "archive"), Append(elog, "archive_ok"))
       \/ /\ abort(Err(calls, "archive"), Append(elog, "archive_err"))
          /\ UNCHANGED <<stats, mailbox>>
    /\ UNCHANGED <<emails, tasks>>
    /\ UNCHANGED <<tokenVars, acctVars, fetchVars, msgVars>>

(***************************************************************************)
(* main.rs 530-534: Action::Reply asks for a draft.                        *)
(***************************************************************************)
action_reply ==
    /\ pc = "waiting"
    /\ stay < MaxStay
    /\ suspend("drafting", Sent(calls, "draft"), <<"draft_call">>)
    /\ UNCHANGED <<emails, stats, tasks, mailbox>>
    /\ UNCHANGED <<tokenVars, acctVars, fetchVars, msgVars>>

(***************************************************************************)
(* main.rs 577-581: generate_reply returned Err: a message, then the email *)
(* is drawn again and the action loop iterates.                            *)
(***************************************************************************)
draft_failed_breaking(c, log) ==
    advance(c, log \o <<"draw_message", "draw_email">>)

draft_failed(c, log) ==
    same_email(c, log \o <<"draw_message", "draw_email">>)

(***************************************************************************)
(* main.rs 534-538 and 577-581: the draft arrived, or failed.              *)
(***************************************************************************)
generate_reply_response ==
    /\ pc = "drafting"
    /\ \/ \E d \in Drafts :
            /\ pc' = "reply_flow"
            /\ draft' = Some(d)
            /\ calls' = Ok(calls, "draft")
            /\ elog' = elog \o <<"draft_ok", "draw_reply_draft">>
            /\ UNCHANGED <<idx, analysis, presented, stay, shown>>
       \/ draft_failed(Err(calls, "draft"), Append(elog, "draft_err"))
    /\ UNCHANGED <<emails, stats, tasks, mailbox>>
    /\ UNCHANGED <<tokenVars, acctVars, fetchVars, msgVars>>

(***************************************************************************)
(* main.rs 560-570: ReplyAction::Edit opens the message in the browser and *)
(* breaks out of the action loop.                                          *)
(***************************************************************************)
reply_edit_staying(c, log) ==
    same_email(c, Append(log, "open_url"))

reply_edit(c, log) ==
    advance(c, Append(log, "open_url"))

(***************************************************************************)
(* main.rs 571-574: ReplyAction::Cancel draws the email again; the action  *)
(* loop iterates and the draft goes out of scope.                          *)
(***************************************************************************)
reply_cancel_breaking(c, log) ==
    advance(c, Append(log, "draw_email"))

reply_cancel_quitting(c, log) ==
    summary(c, Append(log, "draw_email"))

reply_cancel(c, log) ==
    same_email(c, Append(log, "draw_email"))

(***************************************************************************)
(* main.rs 538-575: wait_for_reply_action returned Send, Edit or Cancel.   *)
(***************************************************************************)
wait_for_reply_action ==
    /\ pc = "reply_flow"
    /\ \/ suspend("sending", Sent(calls, "send"), elog \o <<"send", "send_call">>)
       \/ reply_edit(calls, Append(elog, "edit"))
       \/ reply_cancel(calls, Append(elog, "cancel"))
    /\ UNCHANGED <<emails, stats, tasks, mailbox>>
    /\ UNCHANGED <<tokenVars, acctVars, fetchVars, msgVars>>

(***************************************************************************)
(* main.rs 551-557: send_reply returned Err: a message is drawn, the match *)
(* ends and the action loop iterates (wait_for_action).                    *)
(***************************************************************************)
send_failed_archiving(c, log) ==
    suspend("reply_archiving", Sent(c, "archive"), Append(log, "archive_call"))

send_failed_retrying(c, log) ==
    suspend("sending", Sent(c, "send"), log \o <<"draw_message", "send_call">>)

send_failed(c, log) ==
    same_email(c, Append(log, "draw_message"))

(***************************************************************************)
(* main.rs 549: the counter a sent and archived reply increments.          *)
(***************************************************************************)
count_replied_as_archived(st) == [st EXCEPT !.archived = @ + 1]

count_replied(st) == [st EXCEPT !.replied = @ + 1]

(***************************************************************************)
(* main.rs 541-558: send_reply returned.  On success the archive request   *)
(* follows; on failure the match ends and the action loop iterates.        *)
(***************************************************************************)
send_reply_response ==
    /\ pc = "sending"
    /\ \/ /\ mailbox' = [mailbox EXCEPT !.replied = @ \cup {email.id}]
          /\ suspend("reply_archiving", Sent(Ok(calls, "send"), "archive"),
                     elog \o <<"send_ok", "archive_call">>)
       \/ /\ send_failed(Err(calls, "send"), Append(elog, "send_err"))
          /\ UNCHANGED mailbox
    /\ UNCHANGED <<emails, stats, tasks>>
    /\ UNCHANGED <<tokenVars, acctVars, fetchVars, msgVars>>

(***************************************************************************)
(* main.rs 543-550: the archive that follows a sent reply returned.        *)
(***************************************************************************)
reply_archive_response ==
    /\ pc = "reply_archiving"
    /\ \/ /\ mailbox' = [mailbox EXCEPT !.archived = @ \cup {email.id}]
          /\ stats' = count_replied(stats)
          /\ advance(Ok(calls, "archive"), Append(elog, "archive_ok"))
       \/ /\ abort(Err(calls, "archive"), Append(elog, "archive_err"))
          /\ UNCHANGED <<stats, mailbox>>
    /\ UNCHANGED <<emails, tasks>>
    /\ UNCHANGED <<tokenVars, acctVars, fetchVars, msgVars>>

(***************************************************************************)
(* main.rs 585-590: the message is opened in the browser and a note is     *)
(* drawn; there is no break, so the action loop iterates.                  *)
(***************************************************************************)
open_in_browser_breaking(c, log) ==
    advance(c, log \o <<"open_url", "draw_message">>)

open_in_browser(c, log) ==
    same_email(c, log \o <<"open_url", "draw_message">>)

(***************************************************************************)
(* main.rs 584-590: Action::Open.                                          *)
(***************************************************************************)
action_open ==
    /\ pc = "waiting"
    /\ stay < MaxStay
    /\ open_in_browser(calls, << >>)
    /\ UNCHANGED <<emails, stats, tasks, mailbox>>
    /\ UNCHANGED <<tokenVars, acctVars, fetchVars, msgVars>>

(***************************************************************************)
(* main.rs 591-596: Action::ViewFull and the key that ends it.             *)
(***************************************************************************)
action_view_full ==
    /\ pc = "waiting"
    /\ stay < MaxStay
    /\ suspend("viewing", calls, <<"draw_full_email">>)
    /\ UNCHANGED <<emails, stats, tasks, mailbox>>
    /\ UNCHANGED <<tokenVars, acctVars, fetchVars, msgVars>>

view_full_key ==
    /\ pc = "viewing"
    /\ same_email(calls, elog \o <<"key", "draw_email">>)
    /\ UNCHANGED <<emails, stats, tasks, mailbox>>
    /\ UNCHANGED <<tokenVars, acctVars, fetchVars, msgVars>>

(***************************************************************************)
(* main.rs 597-600: Action::Skip.                                          *)
(***************************************************************************)
action_skip ==
    /\ pc = "waiting"
    /\ stats' = [stats EXCEPT !.skipped = @ + 1]
    /\ advance(calls, <<"skip">>)
    /\ UNCHANGED <<emails, tasks, mailbox>>
    /\ UNCHANGED <<tokenVars, acctVars, fetchVars, msgVars>>

(***************************************************************************)
(* main.rs 602-611: the summary is drawn with the counters as they stand   *)
(* and run_interactive returns after a key.                                *)
(***************************************************************************)
on_quit_silent(c, log) ==
    /\ pc' = "done"
    /\ calls' = c
    /\ elog' = log
    /\ UNCHANGED <<idx, analysis, draft, presented, stay, shown>>

on_quit(c, log) ==
    summary(c, log)

(***************************************************************************)
(* main.rs 601-612: Action::Quit.                                          *)
(***************************************************************************)
action_quit ==
    /\ pc = "waiting"
    /\ on_quit(calls, <<"quit">>)
    /\ UNCHANGED <<emails, stats, tasks, mailbox>>
    /\ UNCHANGED <<tokenVars, acctVars, fetchVars, msgVars>>

(***************************************************************************)
(* main.rs 610-611 and 626-628: the key after the summary.                 *)
(***************************************************************************)
summary_key ==
    /\ pc = "summary"
    /\ pc' = "done"
    /\ UNCHANGED <<idx, analysis, draft, calls, elog, presented, stay, shown>>
    /\ UNCHANGED <<emails, stats, tasks, mailbox>>
    /\ UNCHANGED <<tokenVars, acctVars, fetchVars, msgVars>>

(***************************************************************************)
(* main.rs 441-461: the session as it stands when the batch is fetched.    *)
(***************************************************************************)
InitTriage ==
    /\ IdleTokens
    /\ IdleAccounts
    /\ IdleFetch
    /\ IdleMessage
    /\ emails \in {Batch(n) : n \in 0..MaxBatch}
    /\ idx = 0
    /\ pc = "fetched"
    /\ analysis = None
    /\ draft = None
    /\ stats = Stats(0, 0, 0, 0, 0)
    /\ tasks = << >>
    /\ mailbox = EmptyMailbox
    /\ calls = NoCalls
    /\ elog = << >>
    /\ presented = << >>
    /\ stay = 0
    /\ shown = FALSE

NextTriage ==
    \/ start_triage
    \/ analyze_email_response
    \/ action_archive
    \/ action_delete
    \/ archive_response
    \/ delete_response
    \/ action_task
    \/ wait_for_confirm
    \/ task_archive_response
    \/ action_reply
    \/ generate_reply_response
    \/ wait_for_reply_action
    \/ send_reply_response
    \/ reply_archive_response
    \/ action_open
    \/ action_view_full
    \/ view_full_key
    \/ action_skip
    \/ action_quit
    \/ summary_key

SpecTriage == InitTriage /\ [][NextTriage]_vars

(***************************************************************************)
(* The session under the assumptions that every request that was sent      *)
(* returns (with a result or an error) and that the user presses a key     *)
(* whenever one is awaited: a step that is possible is eventually taken.   *)
(***************************************************************************)
SpecTriageLive == SpecTriage /\ WF_vars(NextTriage)

(***************************************************************************)
(* gmail.rs, fetch_unread and fetch_latest.  A message is represented by   *)
(* its id; the provider lists at most max_results distinct messages.       *)
(***************************************************************************)
MessageIds == 1..MaxListed

Listings(n) ==
    {l \in UNION {[1..k -> MessageIds] : k \in 0..n} :
        \A i, j \in 1..Len(l) : l[i] = l[j] => i = j}

\* gmail.rs 220-224 and 246-250: the list request is sent
list_request(kind, n) ==
    /\ fetch.pc = "idle"
    /\ fetch' = [fetch EXCEPT !.pc = "listing", !.kind = kind,
                              !.max_results = n]
    /\ UNCHANGED <<tokenVars, sessVars, acctVars, msgVars>>

fetch_unread == \E n \in 1..MaxListed : list_request("unread", n)

fetch_latest == \E n \in 1..MaxListed : list_request("latest", n)

(***************************************************************************)
(* main.rs 441-452: what run_interactive makes of the value fetch_unread   *)
(* or fetch_latest returns: an Err ends the command through ?, an empty    *)
(* batch is reported as "No unread emails", any other batch is triaged.    *)
(***************************************************************************)
on_fetch_return(f) ==
    [f EXCEPT !.report = IF f.pc = "failed" THEN "error"
                         ELSE IF f.pc # "done" THEN "none"
                         ELSE IF f.emails = << >> THEN "inbox_zero"
                         ELSE "triage"]

(***************************************************************************)
(* The responses to the list request: a success status with a list body    *)
(* (without "messages" when nothing matches), or a non-success status with *)
(* the API's JSON error object or with a body that is not JSON.            *)
(***************************************************************************)
ListResponses(n) ==
    {[status |-> "success", json |-> TRUE, messages |-> m] :
         m \in {None} \cup {Some(l) : l \in Listings(n)}}
        \cup {[status |-> "error", json |-> j, messages |-> None] :
                  j \in BOOLEAN}

(***************************************************************************)
(* gmail.rs 226-235 and 252-261: the list response.  A body that is not    *)
(* JSON propagates with ?; the status is not tested, and a JSON body       *)
(* without "messages" (an empty result, or the error object of a           *)
(* non-success status) gives the empty list.                               *)
(***************************************************************************)
on_list_response(f, r) ==
    IF ~r.json THEN [f EXCEPT !.pc = "failed", !.status = r.status]
    ELSE LET refs == IF r.messages = None THEN << >> ELSE Unwrap(r.messages)
         IN  [f EXCEPT !.status = r.status,
                       !.listed = refs,
                       !.pos = IF refs = << >> THEN 0 ELSE 1,
                       !.pc = IF refs = << >> THEN "done" ELSE "fetching"]

\* a transport error of send() propagates with ?
list_response ==
    /\ fetch.pc = "listing"
    /\ \/ fetch' = on_fetch_return([fetch EXCEPT !.pc = "failed",
                                                 !.status = "transport"])
       \/ \E r \in ListResponses(fetch.max_results) :
              fetch' = on_fetch_return(on_list_response(fetch, r))
    /\ UNCHANGED <<tokenVars, sessVars, acctVars, msgVars>>

\* the for loop moves to the next message reference, or returns Ok(emails)
next_message(f) ==
    IF f.pos < Len(f.listed)
    THEN [f EXCEPT !.pos = @ + 1]
    ELSE [f EXCEPT !.pc = "done"]

(***************************************************************************)
(* gmail.rs 238-240 and 264-266: "if let Ok(email) = fetch_email(..)":     *)
(* an Err is dropped and the loop goes on.                                 *)
(***************************************************************************)
on_fetch_email_error_propagated(f) ==
    [f EXCEPT !.pc = "failed", !.failed = @ \cup {f.listed[f.pos]}]

on_fetch_email_error(f) ==
    next_message([f EXCEPT !.failed = @ \cup {f.listed[f.pos]}])

\* gmail.rs 239 and 265: emails.push(email)
on_fetch_email_ok(f) ==
    next_message([f EXCEPT !.emails = Append(@, f.listed[f.pos])])

(***************************************************************************)
(* gmail.rs 271-283: the detail request of the message at pos returned.    *)
(***************************************************************************)
fetch_email_response ==
    /\ fetch.pc = "fetching"
    /\ \/ fetch' = on_fetch_return(on_fetch_email_ok(fetch))
       \/ fetch' = on_fetch_return(on_fetch_email_error(fetch))
    /\ UNCHANGED <<tokenVars, sessVars, acctVars, msgVars>>

InitFetch ==
    /\ IdleTokens
    /\ IdleSession
    /\ IdleAccounts
    /\ IdleFetch
    /\ IdleMessage

NextFetch ==
    \/ fetch_unread
    \/ fetch_latest
    \/ list_response
    \/ fetch_email_response

SpecFetch == InitFetch /\ [][NextFetch]_vars

(***************************************************************************)
(* The account commands (main.rs add_account, remove_account,              *)
(* set_default_account; config.rs) and the construction of a client for a  *)
(* configured account (GmailClient::new).  One command runs at a time.     *)
(* An id is typed by the user; chars gives its characters.                 *)
(***************************************************************************)
CommandIds == Accounts \cup {"a/b", "", "x51", "e26"}

chars(id) ==
    CASE id = "personal" -> <<"p", "e", "r", "s", "o", "n", "a", "l">>
      [] id = "work" -> <<"w", "o", "r", "k">>
      [] id = "a/b" -> <<"a", "/", "b">>
      [] id = "x51" -> [i \in 1..51 |-> "x"]
      [] id = "e26" -> [i \in 1..26 |-> "eacute"]
      [] OTHER -> << >>

is_alphanumeric(c) ==
    c \in {"a", "b", "e", "k", "l", "n", "o", "p", "r", "s", "w", "x",
           "eacute"}

MaxIdLen == 50

RECURSIVE id_len(_)
\* str::len of the id, in bytes
id_len(t) == IF t = << >> THEN 0 ELSE len_utf8(Head(t)) + id_len(Tail(t))

valid_account_id_any_length(id) ==
    LET t == chars(id) IN
    \A i \in 1..Len(t) : is_alphanumeric(t[i]) \/ t[i] = "_" \/ t[i] = "-"

\* main.rs 151-159: the two tests add_account makes on the id
valid_account_id(id) ==
    LET t == chars(id) IN
    /\ \A i \in 1..Len(t) : is_alphanumeric(t[i]) \/ t[i] = "_" \/ t[i] = "-"
    /\ ~ (Len(t) = 0 \/ id_len(t) > MaxIdLen)

Configured(cfg) == {cfg.accounts[i] : i \in 1..Len(cfg.accounts)}

\* Vec::first as an Option
first(s) == IF s = << >> THEN None ELSE Some(s[1])

\* Vec::retain(|a| a.id != id)
retain_other(s, id) ==
    LET R[i \in 0..Len(s)] ==
            IF i = 0 THEN << >>
            ELSE IF s[i] # id THEN Append(R[i - 1], s[i]) ELSE R[i - 1]
    IN R[Len(s)]

Command(p, op, id, result) ==
    [pc |-> p, op |-> op, id |-> id, result |-> result]

CommandIdle == acmd.pc \in {"idle", "done"}

(***************************************************************************)
(* config.rs 190-202, Config::add_account: a duplicate id is refused; the  *)
(* first account becomes the default.                                      *)
(***************************************************************************)
config_add_account_after_default(cfg, id) ==
    IF id \in Configured(cfg) THEN cfg
    ELSE GmailConfig(Append(cfg.accounts, id), cfg.default_account)

config_add_account(cfg, id) ==
    IF id \in Configured(cfg) THEN cfg
    ELSE GmailConfig(Append(cfg.accounts, id),
                     IF cfg.accounts = << >> THEN Some(id)
                     ELSE cfg.default_account)

(***************************************************************************)
(* config.rs 219-222: the default after the removal of id.                 *)
(***************************************************************************)
default_after_remove_kept(cfg, id, remaining) ==
    cfg.default_account

default_after_remove(cfg, id, remaining) ==
    IF cfg.default_account = Some(id) THEN first(remaining)
    ELSE cfg.default_account

(***************************************************************************)
(* config.rs 213-217: the token file of the removed account is deleted.    *)
(***************************************************************************)
remove_token_file_kept(tk, id) ==
    tk

remove_token_file(tk, id) ==
    IF id \in DOMAIN tk THEN [tk EXCEPT ![id] = NoFile] ELSE tk

Finished(c, result) == [c EXCEPT !.pc = "done", !.result = result]

\* the command goes on once GmailClient::new has its access token:
\* add_account fetches the profile, the other commands have their client
after_token(c) ==
    IF c.op = "add" THEN [c EXCEPT !.pc = "profile"] ELSE Finished(c, "ok")

(***************************************************************************)
(* gmail.rs 54-85, GmailClient::new and get_valid_token up to the first    *)
(* request, for the token record stored under the id of the command.       *)
(***************************************************************************)
enter_get_valid_token(c, stored) ==
    IF stored.kind = "none" THEN [c EXCEPT !.pc = "reauth"]
    ELSE IF stored.kind = "corrupt" THEN Finished(c, "err")
    ELSE IF ~ is_expired(stored, now) THEN after_token(c)
    ELSE [c EXCEPT !.pc = "refresh"]

TokenGrants ==
    {<<r, e>> : r \in {None} \cup {Some(t) : t \in RefreshTokens},
                e \in ExpiresIn}

(***************************************************************************)
(* main.rs 149-184, add_account up to the start of the OAuth flow: the id  *)
(* is validated, the configuration loaded, a configured id refused and the *)
(* credentials resolved (from the arguments, the first account or a file). *)
(***************************************************************************)
add_account(id) ==
    /\ CommandIdle
    /\ \E credentials \in BOOLEAN :
         LET c == Command("oauth", "add", id, "none") IN
         acmd' = IF ~ valid_account_id(id) THEN Finished(c, "err")
                 ELSE IF id \in Configured(config) THEN Finished(c, "err")
                 ELSE IF ~ credentials /\ config.accounts = << >>
                 THEN Finished(c, "err")
                 ELSE c
    /\ UNCHANGED <<config, tokenVars, sessVars, fetchVars, msgVars>>

(***************************************************************************)
(* main.rs 184-187 with gmail.rs 120-199: oauth_flow returned.  On success *)
(* the token record is written under the id, and GmailClient::new reads it *)
(* back.                                                                   *)
(***************************************************************************)
add_oauth_response ==
    /\ acmd.pc = "oauth"
    /\ \/ /\ issued < MaxIssued
          /\ \E g \in TokenGrants :
               LET record == exchanged_record(issued + 1, g[1], g[2], now) IN
               /\ tokens' = [tokens EXCEPT ![acmd.id] = record]
               /\ acmd' = enter_get_valid_token(acmd, record)
          /\ issued' = issued + 1
       \/ /\ acmd' = Finished(acmd, "err")
          /\ UNCHANGED <<tokens, issued>>
    /\ UNCHANGED <<config, now, auth, sessVars, fetchVars, msgVars>>

(***************************************************************************)
(* gmail.rs 76-84 and 87-118: the refresh grant returned; a failure falls  *)
(* through to oauth_flow.                                                  *)
(***************************************************************************)
token_refresh_response ==
    /\ acmd.pc = "refresh"
    /\ \/ /\ issued < MaxIssued
          /\ \E e \in ExpiresIn :
               tokens' = [tokens EXCEPT ![acmd.id] =
                   refreshed_record(issued + 1, tokens[acmd.id].refresh_token,
                                    e, now)]
          /\ issued' = issued + 1
          /\ acmd' = after_token(acmd)
       \/ /\ acmd' = [acmd EXCEPT !.pc = "reauth"]
          /\ UNCHANGED <<tokens, issued>>
    /\ UNCHANGED <<config, now, auth, sessVars, fetchVars, msgVars>>

(***************************************************************************)
(* gmail.rs 84 and 120-199: the oauth_flow that get_valid_token runs       *)
(* returned.                                                               *)
(***************************************************************************)
token_reauth_response ==
    /\ acmd.pc = "reauth"
    /\ \/ /\ issued < MaxIssued
          /\ \E g \in TokenGrants :
               tokens' = [tokens EXCEPT ![acmd.id] =
                   exchanged_record(issued + 1, g[1], g[2], now)]
          /\ issued' = issued + 1
          /\ acmd' = after_token(acmd)
       \/ /\ acmd' = Finished(acmd, "err")
          /\ UNCHANGED <<tokens, issued>>
    /\ UNCHANGED <<config, now, auth, sessVars, fetchVars, msgVars>>

(***************************************************************************)
(* main.rs 188-203 with gmail.rs 202-218: fetch_user_email returned; on    *)
(* success the account is added to the configuration and saved.            *)
(***************************************************************************)
profile_response ==
    /\ acmd.pc = "profile"
    /\ \/ /\ config' = config_add_account(config, acmd.id)
          /\ acmd' = Finished(acmd, IF acmd.id \in Configured(config)
                                    THEN "err" ELSE "ok")
       \/ /\ acmd' = Finished(acmd, "err")
          /\ UNCHANGED config
    /\ UNCHANGED <<tokenVars, sessVars, fetchVars, msgVars>>

(***************************************************************************)
(* main.rs 303-308 with config.rs 205-225: remove_account.                 *)
(***************************************************************************)
remove_account(id) ==
    /\ CommandIdle
    /\ LET remaining == retain_other(config.accounts, id)
           c == Command("done", "remove", id, "none") IN
       IF Len(remaining) = Len(config.accounts)
       THEN /\ acmd' = Finished(c, "err")
            /\ UNCHANGED <<config, tokens>>
       ELSE /\ tokens' = remove_token_file(tokens, id)
            /\ config' = GmailConfig(remaining,
                                     default_after_remove(config, id, remaining))
            /\ acmd' = Finished(c, "ok")
    /\ UNCHANGED <<now, issued, auth, sessVars, fetchVars, msgVars>>

(***************************************************************************)
(* main.rs 310-315 with config.rs 228-235: set_default_account.            *)
(***************************************************************************)
set_default_account(id) ==
    /\ CommandIdle
    /\ LET c == Command("done", "default", id, "none") IN
       IF id \notin Configured(config)
       THEN /\ acmd' = Finished(c, "err")
            /\ UNCHANGED config
       ELSE /\ config' = [config EXCEPT !.default_account = Some(id)]
            /\ acmd' = Finished(c, "ok")
    /\ UNCHANGED <<tokenVars, sessVars, fetchVars, msgVars>>

(***************************************************************************)
(* gmail.rs 54-61: a command that works on the mailbox of a configured     *)
(* account builds its client.                                              *)
(***************************************************************************)
client_new(a) ==
    /\ CommandIdle
    /\ a \in Configured(config)
    /\ acmd' = enter_get_valid_token(Command("idle", "use", a, "none"),
                                     tokens[a])
    /\ UNCHANGED <<config, tokenVars, sessVars, fetchVars, msgVars>>

InitAccount ==
    /\ IdleTokens
    /\ IdleSession
    /\ IdleAccounts
    /\ IdleFetch
    /\ IdleMessage

NextAccount ==
    \/ \E id \in CommandIds : add_account(id)
    \/ add_oauth_response
    \/ token_refresh_response
    \/ token_reauth_response
    \/ profile_response
    \/ \E id \in CommandIds : remove_account(id)
    \/ \E id \in CommandIds : set_default_account(id)
    \/ \E a \in Accounts : client_new(a)

SpecAccount == InitAccount /\ [][NextAccount]_vars

(***************************************************************************)
(* Message parsing and the texts derived from a message (src/gmail.rs,     *)
(* src/email.rs, src/ai.rs).  A body String is a sequence of runs of one   *)
(* character, [c |-> character, n |-> repetitions]: no run is empty and    *)
(* neighbouring runs differ, so equal strings are equal sequences.  A      *)
(* subject is a sequence of characters.                                    *)
(***************************************************************************)
MaxText == 4        \* characters of the short bodies of a message

AnalysisBudget == 1500
ReplyBudget == 2000

Run(c, n) == [c |-> c, n |-> n]

Str(c, n) == IF n = 0 THEN << >> ELSE <<Run(c, n)>>

\* String::push_str of a run
push(s, r) ==
    IF s # << >> /\ s[Len(s)].c = r.c
    THEN [s EXCEPT ![Len(s)].n = @ + r.n]
    ELSE Append(s, r)

RECURSIVE concat(_, _)
concat(s, t) == IF t = << >> THEN s ELSE concat(push(s, Head(t)), Tail(t))

RECURSIVE len(_)
\* str::len, the length in bytes
len(s) ==
    IF s = << >> THEN 0
    ELSE Head(s).n * len_utf8(Head(s).c) + len(Tail(s))

RECURSIVE is_char_boundary(_, _)
\* str::is_char_boundary
is_char_boundary(s, index) ==
    IF index = 0 THEN TRUE
    ELSE IF s = << >> THEN FALSE
    ELSE LET w == len_utf8(Head(s).c)
             bytes == Head(s).n * w
         IN  IF index >= bytes
             THEN is_char_boundary(Tail(s), index - bytes)
             ELSE index % w = 0

RECURSIVE slice_to(_, _)
\* &s[..index] for an index on a character boundary
slice_to(s, index) ==
    IF index = 0 \/ s = << >> THEN << >>
    ELSE LET w == len_utf8(Head(s).c)
             bytes == Head(s).n * w
         IN  IF index >= bytes
             THEN <<Head(s)>> \o slice_to(Tail(s), index - bytes)
             ELSE <<Run(Head(s).c, index \div w)>>

Returned(s) == [kind |-> "ok", value |-> s]

\* a panic unwinds main: the process ends
Panicked == [kind |-> "panic", value |-> << >>]

\* ai.rs 178-184; the slice panics off a character boundary
truncate(s, max_len) ==
    IF len(s) <= max_len THEN Returned(s)
    ELSE IF is_char_boundary(s, max_len)
         THEN Returned(concat(slice_to(s, max_len), Str(".", 3)))
         ELSE Panicked

(***************************************************************************)
(* gmail.rs 325-354: the part tree.  MessageBody.data is base64url text    *)
(* that may not decode, and the decoded bytes may not be UTF-8.            *)
(***************************************************************************)
Utf8(s) == [utf8 |-> TRUE, text |-> s]

NotUtf8 == [utf8 |-> FALSE, text |-> << >>]

Base64(bytes) == [base64 |-> TRUE, bytes |-> bytes]

Malformed == [base64 |-> FALSE, bytes |-> NotUtf8]

\* URL_SAFE.decode(data).ok()
decode(data) == IF data.base64 THEN Some(data.bytes) ELSE None

\* String::from_utf8(decoded).ok()
from_utf8(bytes) == IF bytes.utf8 THEN Some(bytes.text) ELSE None

\* data is part.body.and_then(|b| b.data), parts is part.parts or empty
MessagePart(mime_type, data, parts) ==
    [mime_type |-> mime_type, data |-> data, parts |-> parts]

\* gmail.rs 333-346: the assignment a part with decodable data makes
collect(part, body) ==
    IF part.data = None THEN body
    ELSE LET decoded == decode(Unwrap(part.data))
         IN  IF decoded = None THEN body ELSE from_utf8(Unwrap(decoded))

RECURSIVE process_part(_, _)
RECURSIVE process_parts(_, _)
\* gmail.rs 329-352
process_part(part, bodies) ==
    LET own == IF part.mime_type = "text/plain"
               THEN [bodies EXCEPT !.plain = collect(part, @)]
               ELSE IF part.mime_type = "text/html"
               THEN [bodies EXCEPT !.html = collect(part, @)]
               ELSE bodies
    IN  process_parts(part.parts, own)

\* gmail.rs 347-351: for p in parts
process_parts(parts, bodies) ==
    IF parts = << >> THEN bodies
    ELSE process_parts(Tail(parts), process_part(Head(parts), bodies))

extract_body(payload) ==
    process_part(payload, [plain |-> None, html |-> None])

\* gmail.rs 286-323, the fields the derived texts read
parse_message(msg) ==
    LET bodies == extract_body(msg.payload)
    IN  [subject |-> msg.subject, snippet |-> msg.snippet,
         body_plain |-> bodies.plain, body_html |-> bodies.html]

(***************************************************************************)
(* email.rs 100-113.  html2text::from_read drops the markup; it returns a  *)
(* Result, and body_text falls through to the snippet on Err.              *)
(***************************************************************************)
RECURSIVE strip_tags(_, _, _)
strip_tags(s, in_tag, out) ==
    IF s = << >> THEN out
    ELSE IF Head(s).c = "<" THEN strip_tags(Tail(s), TRUE, out)
    ELSE IF Head(s).c = ">" THEN strip_tags(Tail(s), FALSE, out)
    ELSE strip_tags(Tail(s), in_tag,
                    IF in_tag THEN out ELSE push(out, Head(s)))

\* the Results html2text::from_read(html, 80) may give, as Options
from_read(html) == {None, Some(strip_tags(html, FALSE, << >>))}

is_empty(s) == s = << >>

filled(body) == body # None /\ ~is_empty(Unwrap(body))

body_text_any_plain(e, rendered) ==
    IF e.body_plain # None THEN Unwrap(e.body_plain)
    ELSE IF filled(e.body_html) /\ rendered # None THEN Unwrap(rendered)
    ELSE e.snippet

\* rendered is the outcome of from_read on the html body
body_text(e, rendered) ==
    IF filled(e.body_plain) THEN Unwrap(e.body_plain)
    ELSE IF filled(e.body_html) /\ rendered # None THEN Unwrap(rendered)
    ELSE e.snippet

(***************************************************************************)
(* gmail.rs 456-462 (and tui.rs 355-359): the subject of a reply.          *)
(***************************************************************************)
starts_with(s, prefix) ==
    /\ Len(s) >= Len(prefix)
    /\ SubSeq(s, 1, Len(prefix)) = prefix

reply_subject_prefixing(subject) == <<"R", "e", ":", " ">> \o subject

reply_subject(subject) ==
    IF \/ starts_with(subject, <<"R", "e", ":">>)
       \/ starts_with(subject, <<"R", "E", ":">>)
    THEN subject
    ELSE <<"R", "e", ":", " ">> \o subject

(***************************************************************************)
(* The messages the model parses.                                          *)
(***************************************************************************)
TextA == Str("a", MaxText)

TextB == Str("b", MaxText)

\* <p>a..a</p>
MarkupA ==
    <<Run("<", 1), Run("p", 1), Run(">", 1), Run("a", MaxText), Run("<", 1),
      Run("/", 1), Run("p", 1), Run(">", 1)>>

Datas ==
    {None, Some(Malformed), Some(Base64(NotUtf8))}
        \cup {Some(Base64(Utf8(s))) : s \in {<< >>, TextA, TextB, MarkupA}}

\* bodies around the two budgets, with one- and two-byte characters
LongTexts ==
    {Str("a", AnalysisBudget), Str("a", AnalysisBudget + 1),
     Str("a", ReplyBudget), Str("a", ReplyBudget + 1),
     Str("eacute", AnalysisBudget \div 2),
     Str("eacute", AnalysisBudget \div 2 + 1),
     Str("eacute", ReplyBudget),
     <<Run("a", AnalysisBudget - 1), Run("eacute", MaxText)>>,
     <<Run("a", ReplyBudget - 1), Run("eacute", MaxText)>>}

Leaf(mime_type, data) == MessagePart(mime_type, data, << >>)

Payloads ==
    {Leaf(m, d) : m \in {"text/plain", "text/html"}, d \in Datas}
        \cup {Leaf(m, Some(Base64(Utf8(s)))) :
                  m \in {"text/plain", "text/html"}, s \in LongTexts}
        \cup {MessagePart("multipart/alternative", None,
                          <<Leaf(m1, d1), Leaf(m2, d2)>>) :
                  m1 \in {"text/plain", "text/html"},
                  m2 \in {"text/plain", "text/html"},
                  d1 \in Datas, d2 \in Datas}
        \cup {MessagePart("multipart/mixed", None,
                          <<Leaf("text/html", d1),
                            MessagePart("multipart/related", None,
                                        <<Leaf("text/plain", d2)>>),
                            Leaf(m3, d3)>>) :
                  m3 \in {"text/plain", "text/html"},
                  d1 \in Datas, d2 \in Datas, d3 \in Datas}

ReplySubjects ==
    {<< >>, <<"x">>, <<"R">>, <<"R", "e">>, <<"R", "e", ":">>,
     <<"R", "e", ":", " ", "x">>, <<"R", "E", ":", " ", "x">>,
     <<"r", "e", ":", " ", "x">>, <<"r", "E", ":", " ", "x">>,
     <<"R", "e", "x">>, <<"F", "w", ":", " ", "R", "e", ":", " ", "x">>}

Snippets == {<< >>, Str("s", MaxText)}

MessageResponse(subject, snippet, payload) ==
    [subject |-> subject, snippet |-> snippet, payload |-> payload]

Messages ==
    {MessageResponse(<<"x">>, s, p) : s \in Snippets, p \in Payloads}
        \cup {MessageResponse(s, << >>, Leaf("text/plain", None)) :
                  s \in ReplySubjects}

\* a panic ended the process
Aborted ==
    \E o \in prompt.analysis \cup prompt.reply : o.excerpt.kind = "panic"

html_of(e) == IF e.body_html = None THEN << >> ELSE Unwrap(e.body_html)

\* the excerpt a prompt carries, and what body_text gave for it
Excerpt(e, rendered, max_len) ==
    [rendered |-> rendered, body |-> body_text(e, rendered),
     excerpt |-> truncate(body_text(e, rendered), max_len)]

\* gmail.rs 272-284: fetch_email hands the response to parse_message
fetch_email ==
    /\ parsed = None
    /\ parsed' = Some(parse_message(raw))
    /\ UNCHANGED <<raw, prompt, reply>>
    /\ UNCHANGED <<tokenVars, sessVars, acctVars, fetchVars>>

\* ai.rs 55-63
analyze_email ==
    /\ parsed # None
    /\ ~Aborted
    /\ prompt.analysis = None
    /\ \E rendered \in from_read(html_of(Unwrap(parsed))) :
           prompt' = [prompt EXCEPT !.analysis =
                          Some(Excerpt(Unwrap(parsed), rendered,
                                       AnalysisBudget))]
    /\ UNCHANGED <<raw, parsed, reply>>
    /\ UNCHANGED <<tokenVars, sessVars, acctVars, fetchVars>>

\* ai.rs 124-132
generate_reply ==
    /\ parsed # None
    /\ ~Aborted
    /\ prompt.reply = None
    /\ \E rendered \in from_read(html_of(Unwrap(parsed))) :
           prompt' = [prompt EXCEPT !.reply =
                          Some(Excerpt(Unwrap(parsed), rendered,
                                       ReplyBudget))]
    /\ UNCHANGED <<raw, parsed, reply>>
    /\ UNCHANGED <<tokenVars, sessVars, acctVars, fetchVars>>

\* gmail.rs 450-462
send_reply ==
    /\ parsed # None
    /\ ~Aborted
    /\ reply = None
    /\ reply' = Some(reply_subject(Unwrap(parsed).subject))
    /\ UNCHANGED <<raw, parsed, prompt>>
    /\ UNCHANGED <<tokenVars, sessVars, acctVars, fetchVars>>

InitMessage ==
    /\ IdleTokens
    /\ IdleSession
    /\ IdleAccounts
    /\ IdleFetch
    /\ raw \in Messages
    /\ parsed = None
    /\ prompt = NoPrompt
    /\ reply = None

NextMessage ==
    \/ fetch_email
    \/ analyze_email
    \/ generate_reply
    \/ send_reply

SpecMessage == InitMessage /\ [][NextMessage]_vars

(***************************************************************************)
(* Properties of the credential and token manager.                         *)
(***************************************************************************)
Called == auth.pc # "idle"

EntryHasToken == auth.entry.kind = "token"

\* the record found at the call has no expiry, or one before the call
EntryExpiryPastOrAbsent ==
    /\ EntryHasToken
    /\ \/ auth.entry.expires_at = None
       \/ \E x \in auth.entry.expires_at : x < auth.entry_time

\* the record found at the call has an expiry after the call
EntryExpiryFuture ==
    /\ EntryHasToken
    /\ \E x \in auth.entry.expires_at : x > auth.entry_time

(***************************************************************************)
(* C1: when the stored token of the account has an expiry in the past or   *)
(* no expiry, get_valid_token has sent a refresh grant before anything     *)
(* else, authorizes interactively only after that refresh failed, and the  *)
(* token it returns comes from the refresh or from the authorization and   *)
(* is not the stored access token.                                         *)
(***************************************************************************)
C1_ExpiredNeverReused ==
    (Called /\ EntryExpiryPastOrAbsent) =>
        /\ auth.refresh_calls = 1
        /\ auth.oauth_runs > 0 => auth.refresh = "err"
        /\ auth.result # None =>
             /\ auth.source \in {"refresh", "oauth"}
             /\ auth.result # Some(auth.entry.access_token)

C1_Witness ==
    /\ auth.pc = "authorized"
    /\ EntryHasToken
    /\ auth.entry.expires_at = None
    /\ auth.source = "refresh"

(***************************************************************************)
(* C2: when the stored token has an expiry in the future, get_valid_token  *)
(* returns exactly the stored access token, and sends no refresh grant,    *)
(* starts no interactive authorization, sends no code exchange and does    *)
(* not write the token record.                                             *)
(***************************************************************************)
C2_ValidReturnedUntouched ==
    (Called /\ EntryExpiryFuture) =>
        /\ auth.pc = "authorized"
        /\ auth.result = Some(auth.entry.access_token)
        /\ auth.source = "stored"
        /\ auth.refresh_calls = 0
        /\ auth.oauth_runs = 0
        /\ auth.exchange_calls = 0
        /\ auth.writes = 0
        /\ tokens[auth.account] = auth.entry

C2_Witness ==
    /\ auth.pc = "authorized"
    /\ EntryExpiryFuture
    /\ auth.source = "stored"

(***************************************************************************)
(* C3: the interactive authorization runs exactly when no token record is  *)
(* stored or the refresh grant of an expired token failed; the call moves  *)
(* only along NoToken -> Authorizing, HasToken(valid) -> Authorized,       *)
(* HasToken(expired) -> Refreshing -> Authorized or Authorizing, and       *)
(* Authorizing -> Authorized; a successful refresh or exchange ends the    *)
(* call Authorized, and an Authorized call returns the access token that   *)
(* is persisted for the account.                                           *)
(***************************************************************************)
C3_AuthorizationExactlyWhen ==
    Called =>
        /\ auth.oauth_runs \in {0, 1}
        /\ auth.oauth_runs = 1 <=>
              (auth.entry.kind = "none" \/ auth.refresh = "err")
        /\ auth.pc = "authorizing" => auth.oauth_runs = 1
        /\ auth.response # None => auth.pc = "authorized"
        /\ auth.pc = "authorized" =>
              /\ tokens[auth.account].kind = "token"
              /\ auth.result = Some(tokens[auth.account].access_token)

C3_Step ==
    auth'.pc # auth.pc =>
        \/ /\ auth.pc \in {"idle", "authorized", "failed"}
           /\ \/ auth'.entry.kind = "none" /\ auth'.pc = "authorizing"
              \/ auth'.entry.kind = "token" /\ auth'.pc \in {"authorized", "refreshing"}
              \/ auth'.entry.kind = "corrupt" /\ auth'.pc = "failed"
        \/ auth.pc = "refreshing" /\ auth'.pc \in {"authorized", "authorizing"}
        \/ auth.pc = "authorizing" /\ auth'.pc \in {"exchanging", "failed"}
        \/ auth.pc = "exchanging" /\ auth'.pc \in {"authorized", "failed"}

C3_AuthorizationLifecycle ==
    [] C3_AuthorizationExactlyWhen /\ [][C3_Step]_vars

C3_Witness ==
    /\ auth.pc = "authorized"
    /\ EntryHasToken
    /\ auth.refresh = "err"
    /\ auth.source = "oauth"

(***************************************************************************)
(* C4: after a successful refresh the persisted record of the account      *)
(* holds the access token of the response, the expiry computed from the    *)
(* response (absent when the response has none), and the refresh token     *)
(* that was stored before the refresh.                                     *)
(***************************************************************************)
C4_RefreshPersists ==
    (Called /\ auth.refresh = "ok") =>
        \E resp \in auth.response :
            /\ tokens[auth.account].kind = "token"
            /\ tokens[auth.account].access_token = resp.access_token
            /\ auth.result = Some(resp.access_token)
            /\ tokens[auth.account].expires_at =
                 {resp.at + secs : secs \in resp.expires_in}
            /\ tokens[auth.account].refresh_token = auth.entry.refresh_token

C4_Witness ==
    /\ auth.refresh = "ok"
    /\ \E resp \in auth.response :
          /\ resp.refresh_token # None
          /\ resp.refresh_token # Some(auth.entry.refresh_token)
          /\ resp.expires_in # None

(***************************************************************************)
(* C5: when the request line of the accepted callback connection carries   *)
(* no code query parameter, the authorization fails with an error, no      *)
(* exchange request is sent and the token record of the account is left    *)
(* as it was.                                                              *)
(***************************************************************************)
CarriesCodeParameter(line) ==
    /\ Len(line) >= 2
    /\ \E s \in 2..Len(line[2]) : \E i \in 1..Len(line[2][s]) :
          line[2][s][i].name = "code" /\ line[2][s][i].value # None

C5_MissingCodeFails ==
    \A line \in auth.request_line :
        ~ CarriesCodeParameter(line) =>
            /\ auth.pc = "failed"
            /\ auth.error # "none"
            /\ auth.result = None
            /\ auth.exchange_calls = 0
            /\ tokens[auth.account] = auth.entry

C5_Witness ==
    /\ auth.pc = "failed"
    /\ auth.entry.kind = "token"
    /\ \E line \in auth.request_line :
          Len(line) = 3 /\ ~ CarriesCodeParameter(line)


(***************************************************************************)
(* Properties of the triage session controller.                            *)
(***************************************************************************)
Resolved(op) == calls[op].ok + calls[op].err

\* the step leaves the action loop of the current email
Advanced ==
    IF idx < Len(emails)
    THEN /\ idx' = idx + 1
         /\ pc' = "analyzing"
         /\ presented' = Append(presented, emails[idx + 1].id)
    ELSE /\ idx' = idx
         /\ pc' = "summary"
         /\ presented' = presented

\* the session is at a point where the current email has been drawn
OnEmail ==
    pc \in {"analyzing", "waiting", "archiving", "deleting", "task_confirm",
            "task_archiving", "drafting", "reply_flow", "sending",
            "reply_archiving", "viewing"}

\* the points of the action loop: wait_for_action has returned at least once
\* or is awaited
InActionLoop == OnEmail /\ pc # "analyzing"

MailCallsSent == calls["archive"].sent + calls["trash"].sent + calls["send"].sent

(***************************************************************************)
(* C6: the emails are presented in the order of the fetched batch, one     *)
(* position at a time; while the analysis request of an email is in flight *)
(* nothing but its resolution happens, and whenever the action prompt of   *)
(* an email is awaited, or one of its actions runs, its one analysis       *)
(* request has resolved; the next email is presented only by a step that   *)
(* leaves the action loop of the current one.                              *)
(***************************************************************************)
C6_Order ==
    /\ Len(presented) = idx
    /\ \A i \in 1..Len(presented) : presented[i] = emails[i].id
    /\ OnEmail => calls["analyze"].sent = 1
    /\ pc = "analyzing" =>
          Resolved("analyze") = 0 /\ elog = <<"draw_email", "analyze_call">>
    /\ InActionLoop => Resolved("analyze") = 1

C6_Step ==
    /\ pc = "analyzing" => pc' = "waiting" /\ idx' = idx
    /\ idx' # idx =>
          /\ idx' = idx + 1
          /\ presented' = Append(presented, emails[idx + 1].id)
          /\ pc \in {"fetched", "waiting", "archiving", "deleting",
                     "task_confirm", "task_archiving", "reply_flow",
                     "reply_archiving"}
          /\ pc' = "analyzing"

C6_AnalysisBeforePrompt == [] C6_Order /\ [][C6_Step]_vars

C6_Witness ==
    /\ idx = 3
    /\ pc = "waiting"
    /\ calls["analyze"].err = 1
    /\ stats.skipped = 1

(***************************************************************************)
(* C7: when the analysis of an email fails the session goes on: the same   *)
(* email is drawn without analysis and its action prompt is awaited; no    *)
(* counter changes, nothing is sent to the mail API and no task is stored. *)
(***************************************************************************)
C7_Step ==
    (pc = "analyzing" /\ calls'["analyze"].err = 1) =>
        /\ pc' = "waiting"
        /\ idx' = idx
        /\ presented' = presented
        /\ analysis' = None
        /\ stats' = stats
        /\ mailbox' = mailbox
        /\ tasks' = tasks
        /\ calls' = Err(calls, "analyze")
        /\ MailCallsSent' = 0

C7_AnalysisFailureContinues == [][C7_Step]_vars

C7_Witness ==
    /\ pc = "archiving"
    /\ idx = 2
    /\ analysis = None
    /\ calls["analyze"].err = 1

(***************************************************************************)
(* C8: an archive (delete) decision at the action prompt sends exactly one *)
(* archive (trash) request for the current email and nothing else; when    *)
(* the request succeeds, the archived (deleted) counter grows by one, the  *)
(* other counters keep their values, and the session leaves the email.     *)
(***************************************************************************)
C8_Step ==
    /\ (pc = "waiting" /\ pc' = "archiving") =>
          calls' = Sent(calls, "archive") /\ stats' = stats /\ idx' = idx
    /\ (pc = "waiting" /\ pc' = "deleting") =>
          calls' = Sent(calls, "trash") /\ stats' = stats /\ idx' = idx
    /\ (pc = "archiving" /\ pc' # "error") =>
          /\ calls["archive"].sent = 1 /\ calls["trash"].sent = 0
          /\ mailbox' = [mailbox EXCEPT !.archived = @ \cup {emails[idx].id}]
          /\ stats' = [stats EXCEPT !.archived = @ + 1]
          /\ Advanced
    /\ (pc = "deleting" /\ pc' # "error") =>
          /\ calls["trash"].sent = 1 /\ calls["archive"].sent = 0
          /\ mailbox' = [mailbox EXCEPT !.trashed = @ \cup {emails[idx].id}]
          /\ stats' = [stats EXCEPT !.deleted = @ + 1]
          /\ Advanced

C8_ArchiveDeleteCount == [][C8_Step]_vars

C8_Witness ==
    /\ idx = 3
    /\ pc = "analyzing"
    /\ stats = Stats(1, 1, 0, 0, 0)
    /\ mailbox.archived = {1}
    /\ mailbox.trashed = {2}

(***************************************************************************)
(* C9: when an archive or trash request fails the session ends with the    *)
(* error: the failing step changes no counter, the session stays on that   *)
(* email, the summary is not drawn, and no step follows (no email is       *)
(* presented and no request is sent any more).                             *)
(***************************************************************************)
MutationFailed == calls["archive"].err + calls["trash"].err > 0

C9_Terminated ==
    MutationFailed =>
        /\ pc = "error"
        /\ ~ shown
        /\ Len(presented) = idx

C9_Step ==
    /\ (~ MutationFailed /\ MutationFailed') =>
          /\ stats' = stats
          /\ idx' = idx
          /\ presented' = presented
          /\ tasks' = tasks
          /\ mailbox' = mailbox
          /\ shown' = shown
    /\ MutationFailed => UNCHANGED vars

C9_MutationFailureTerminates == [] C9_Terminated /\ [][C9_Step]_vars

C9_Witness ==
    /\ pc = "error"
    /\ elog = <<"archive_call", "archive_err">>
    /\ idx = 2
    /\ Len(emails) = 3
    /\ stats = Stats(0, 1, 0, 0, 0)

(***************************************************************************)
(* C10: cancel in the create-task prompt returns to the action prompt of   *)
(* the same email without side effects: no task is stored, no archive      *)
(* request is sent, no counter changes, and the session does not leave the *)
(* email.                                                                  *)
(***************************************************************************)
C10_Step ==
    (pc = "task_confirm" /\ pc' # "task_archiving") =>
        /\ pc' = "waiting"
        /\ idx' = idx
        /\ presented' = presented
        /\ tasks' = tasks
        /\ stats' = stats
        /\ mailbox' = mailbox
        /\ calls' = calls
        /\ ~ shown'

C10_TaskCancelStays == [][C10_Step]_vars


\* the step appends the event e to the log of the running decision
NextEvent(e) == Len(elog') > Len(elog) /\ elog'[Len(elog) + 1] = e

(***************************************************************************)
(* C11 (as amended): on confirm in the create-task prompt a task carrying  *)
(* the id and the subject of the current email is appended to the task     *)
(* store and one archive request for that email is sent; when the request  *)
(* succeeds the email is archived, the tasks counter grows by one, the     *)
(* other counters keep their values, and the session leaves the email.     *)
(***************************************************************************)
C11_ConfirmStep ==
    (pc = "task_confirm" /\ NextEvent("confirm")) =>
        /\ Len(tasks') = Len(tasks) + 1
        /\ SubSeq(tasks', 1, Len(tasks)) = tasks
        /\ tasks'[Len(tasks')].source_email_id = Some(emails[idx].id)
        /\ tasks'[Len(tasks')].source_email_subject = Some(emails[idx].subject)
        /\ calls' = Sent(calls, "archive")
        /\ pc' = "task_archiving"
        /\ idx' = idx
        /\ stats' = stats

C11_ArchivedStep ==
    (pc = "task_archiving" /\ pc' # "error") =>
        /\ mailbox' = [mailbox EXCEPT !.archived = @ \cup {emails[idx].id}]
        /\ stats' = [stats EXCEPT !.tasks_created = @ + 1]
        /\ tasks' = tasks
        /\ Advanced

C11_OriginalStep ==
    pc = "task_archiving" =>
        /\ emails[idx].id \in mailbox'.archived
        /\ stats' = [stats EXCEPT !.tasks_created = @ + 1]
        /\ Advanced

C12_TaskImpliesArchived ==
    pc # "task_archiving" =>
        \A i \in 1..Len(tasks) :
            \A id \in tasks[i].source_email_id : id \in mailbox.archived

(***************************************************************************)
(* C13: the task created from an email has as title the suggested action   *)
(* of the analysis when there is an analysis and it carries one, and the   *)
(* subject of the email otherwise; as description the summary of the       *)
(* analysis when there is one, and the empty string otherwise.             *)
(***************************************************************************)
SuggestedActions == UNION {a.suggested_action : a \in analysis}

C13_Step ==
    Len(tasks') > Len(tasks) =>
        LET t == tasks'[Len(tasks')] IN
        /\ SuggestedActions # {} => {t.title} = SuggestedActions
        /\ SuggestedActions = {} => t.title = emails[idx].subject
        /\ analysis # None =>
              t.description = {a.summary : a \in analysis}
        /\ analysis = None =>
              t.description = Some("") /\ t.title = emails[idx].subject

C13_TaskPrefill == [][C13_Step]_vars

C13_Witness ==
    /\ Len(tasks) = 2
    /\ tasks[1] = Task("Invoice due", Some(""), Some(1), Some("Invoice due"))
    /\ tasks[2] = Task("pagar", Some("resumen"), Some(2), Some("Re: lunch"))

\* the step leaves the session, the mailbox and the task store as they were
\* for the current email, apart from the position in the action loop
SameEmailStep ==
    /\ idx' = idx
    /\ presented' = presented
    /\ stats' = stats
    /\ tasks' = tasks
    /\ mailbox' = mailbox
    /\ analysis' = analysis

DraftDecisionLog == <<"draft_call", "draft_ok", "draw_reply_draft">>

(***************************************************************************)
(* C14: when the generation of the reply draft fails, the session waits    *)
(* for an action on the same email again: it does not advance, no counter  *)
(* changes and no send or archive request is issued.                       *)
(***************************************************************************)
C14_Step ==
    (pc = "drafting" /\ (NextEvent("draft_err") \/ draft' = None)) =>
        /\ pc' = "waiting"
        /\ SameEmailStep
        /\ calls' = Err(calls, "draft")

C14_DraftFailureStays == [][C14_Step]_vars

C14_Witness ==
    /\ pc = "waiting"
    /\ idx = 1
    /\ calls["draft"] = [sent |-> 1, ok |-> 0, err |-> 1]
    /\ elog = <<"draft_call", "draft_err", "draw_message", "draw_email",
                "prompt">>
    /\ stats = Stats(0, 0, 0, 0, 0)
    /\ presented = <<1>>

(***************************************************************************)
(* C15: when the send of a reply fails, the session is in the reply flow   *)
(* again with the same draft (where Send, Edit or Cancel is accepted); it  *)
(* does not advance and is not waiting for an action on the email.         *)
(***************************************************************************)
C15_Step ==
    (pc = "sending" /\ NextEvent("send_err")) =>
        /\ pc' = "reply_flow"
        /\ draft' = draft
        /\ idx' = idx
        /\ presented' = presented

C15_SendFailureReturnsToReplyFlow == [][C15_Step]_vars

(***************************************************************************)
(* C16 (as amended): when the send of a reply succeeds, one archive        *)
(* request for the email is sent, after the send and not before; when that *)
(* request succeeds the email is archived, the replied counter grows by    *)
(* one, the other counters keep their values, and the session leaves the   *)
(* email.                                                                  *)
(***************************************************************************)
C16_SentStep ==
    (pc = "sending" /\ NextEvent("send_ok")) =>
        /\ pc' = "reply_archiving"
        /\ calls["archive"].sent = 0
        /\ calls' = Sent(Ok(calls, "send"), "archive")
        /\ mailbox' = [mailbox EXCEPT !.replied = @ \cup {emails[idx].id}]
        /\ emails[idx].id \notin mailbox'.archived
        /\ stats' = stats
        /\ idx' = idx

C16_ArchivedStep ==
    (pc = "reply_archiving" /\ pc' # "error") =>
        /\ mailbox' = [mailbox EXCEPT !.archived = @ \cup {emails[idx].id}]
        /\ stats' = [stats EXCEPT !.replied = @ + 1]
        /\ tasks' = tasks
        /\ Advanced

C16_SendSuccess == [][C16_SentStep /\ C16_ArchivedStep]_vars

C16_Witness ==
    /\ idx = 2
    /\ pc = "analyzing"
    /\ stats = Stats(0, 0, 0, 0, 1)
    /\ mailbox = [archived |-> {1}, trashed |-> {}, replied |-> {1}]

(***************************************************************************)
(* C16 (as stated): every successful send ends with the email archived,    *)
(* the replied counter grown by one and the session on the next email.     *)
(***************************************************************************)
C16_OriginalStep ==
    pc = "reply_archiving" =>
        /\ emails[idx].id \in mailbox'.archived
        /\ stats' = [stats EXCEPT !.replied = @ + 1]
        /\ Advanced

C16_Original == [][C16_SentStep /\ C16_OriginalStep]_vars

(***************************************************************************)
(* C17: in the reply flow an archive request is sent for an email only     *)
(* after a send for that email succeeded; while no send has succeeded (in  *)
(* particular after a failed send followed by a cancel) no archive request *)
(* has been sent for it and it adds nothing to the replied counter, which  *)
(* counts exactly the emails replied to and then archived.                 *)
(***************************************************************************)
C17_ArchiveOnlyAfterSend ==
    /\ pc = "reply_archiving" =>
          /\ calls["send"].ok = 1
          /\ calls["archive"].sent = 1
          /\ emails[idx].id \in mailbox.replied
    /\ pc \in {"waiting", "drafting", "reply_flow", "sending"} =>
          /\ calls["send"].ok = 0
          /\ calls["archive"].sent = 0
          /\ emails[idx].id \notin mailbox.archived \cup mailbox.replied
    /\ stats.replied = Cardinality(mailbox.replied \cap mailbox.archived)

C17_Witness ==
    /\ pc = "waiting"
    /\ idx = 1
    /\ calls["send"] = [sent |-> 1, ok |-> 0, err |-> 1]
    /\ elog = DraftDecisionLog \o <<"cancel", "draw_email", "prompt">>
    /\ calls["archive"].sent = 0
    /\ stats.replied = 0

(***************************************************************************)
(* C18: Cancel in the reply flow drops the draft and the session waits for *)
(* an action on the same email: no counter changes, no request is sent to  *)
(* the mail API and the session does not advance.                          *)
(***************************************************************************)
C18_Step ==
    (pc = "reply_flow" /\ NextEvent("cancel")) =>
        /\ pc' = "waiting"
        /\ draft' = None
        /\ SameEmailStep
        /\ calls' = calls

C18_CancelKeepsEmail == [][C18_Step]_vars

C18_Witness ==
    /\ pc = "waiting"
    /\ idx = 1
    /\ draft = None
    /\ elog = DraftDecisionLog \o <<"cancel", "draw_email", "prompt">>
    /\ calls["draft"].ok = 1
    /\ MailCallsSent = 0
    /\ stats = Stats(0, 0, 0, 0, 0)

(***************************************************************************)
(* C19: Edit in the reply flow opens the browser and the session leaves    *)
(* the email with no mail API mutation: the decision sends no send,        *)
(* archive or trash request, the email is neither archived, trashed nor    *)
(* replied to, and no counter changes.                                     *)
(***************************************************************************)
C19_Step ==
    (pc = "reply_flow" /\ (NextEvent("edit") \/ pc' \in {"analyzing", "summary"})) =>
        /\ Advanced
        /\ elog = DraftDecisionLog
        /\ pc' = "summary" =>
              /\ calls' = calls
              /\ elog' = DraftDecisionLog \o <<"edit", "open_url", "draw_summary">>
        /\ calls["archive"].sent = 0
        /\ calls["trash"].sent = 0
        /\ calls["send"].ok = 0
        /\ emails[idx].id \notin
              mailbox.archived \cup mailbox.trashed \cup mailbox.replied
        /\ mailbox' = mailbox
        /\ stats' = stats
        /\ tasks' = tasks

C19_EditAdvancesWithoutMutation == [][C19_Step]_vars

C19_Witness ==
    /\ pc = "summary"
    /\ idx = 1
    /\ elog = DraftDecisionLog \o <<"edit", "open_url", "draw_summary">>
    /\ mailbox = EmptyMailbox
    /\ stats = Stats(0, 0, 0, 0, 0)

(***************************************************************************)
(* C20: open-in-browser and view-full-body are side channels: after either *)
(* the session waits for an action on the same email, every counter keeps  *)
(* its value and no mail, analysis or task store call has been made; this  *)
(* holds for every one of consecutive such decisions.                      *)
(***************************************************************************)
C20_Step ==
    /\ (pc = "waiting" /\ Len(elog') > 0 /\ elog'[1] = "open_url") =>
          /\ pc' = "waiting"
          /\ SameEmailStep
          /\ calls' = calls
    /\ (pc = "waiting" /\ Len(elog') > 0 /\ elog'[1] = "draw_full_email") =>
          /\ pc' = "viewing"
          /\ SameEmailStep
          /\ calls' = calls
    /\ pc = "viewing" =>
          /\ pc' = "waiting"
          /\ SameEmailStep
          /\ calls' = calls

C20_SideChannel == [][C20_Step]_vars

C20_Witness ==
    /\ pc = "waiting"
    /\ idx = 1
    /\ stay = MaxStay
    /\ elog = <<"draw_full_email", "key", "draw_email", "prompt">>
    /\ calls = Ok(Sent(NoCalls, "analyze"), "analyze")
    /\ stats = Stats(0, 0, 0, 0, 0)
    /\ mailbox = EmptyMailbox
    /\ tasks = << >>

\* the ids of the emails before position i of the batch
IdsBefore(i) == {emails[j].id : j \in 1..(i - 1)}

Mutated == mailbox.archived \cup mailbox.trashed \cup mailbox.replied

QuitEarly == pc \in {"summary", "done"} /\ Len(elog) > 0 /\ elog[1] = "quit"

(***************************************************************************)
(* C21: a quit decision while waiting for an action ends the session at    *)
(* once with the summary shown: no counter changes for the current email,  *)
(* and the emails after it are never presented, analysed, mutated or       *)
(* counted (they are not counted as skipped).                              *)
(***************************************************************************)
C21_Step ==
    /\ (pc = "waiting" /\ Len(elog') > 0 /\ elog'[1] = "quit") =>
          /\ pc' = "summary"
          /\ shown'
          /\ SameEmailStep
          /\ calls' = calls
    /\ pc \in {"summary", "done"} =>
          /\ pc' = "done"
          /\ SameEmailStep
          /\ calls' = calls

C21_Quit ==
    QuitEarly =>
        /\ shown
        /\ Len(presented) = idx
        /\ total(stats) <= idx - 1
        /\ Mutated \subseteq IdsBefore(idx)
        /\ calls["analyze"].sent = 1

C21_QuitEndsSession == []C21_Quit /\ [][C21_Step]_vars

C21_Witness ==
    /\ pc = "done"
    /\ elog = <<"quit", "draw_summary">>
    /\ Len(emails) = 3
    /\ idx = 2
    /\ presented = <<1, 2>>
    /\ stats = Stats(0, 0, 0, 1, 0)
    /\ shown

\* the request the session is waiting for, if any
InFlight ==
    CASE pc = "analyzing" -> Some("analyze")
      [] pc \in {"archiving", "task_archiving", "reply_archiving"} -> Some("archive")
      [] pc = "deleting" -> Some("trash")
      [] pc = "drafting" -> Some("draft")
      [] pc = "sending" -> Some("send")
      [] OTHER -> None

Outstanding(op) == calls[op].sent - Resolved(op)

(***************************************************************************)
(* C22: the session ends with emails left only by a quit decision taken    *)
(* while waiting for an action: an input in the task confirm prompt or in  *)
(* the reply flow never ends it, and a request that was sent is awaited    *)
(* until it succeeds or fails - no step leaves it unanswered.              *)
(***************************************************************************)
C22_Awaited ==
    \A op \in Ops : Outstanding(op) = IF InFlight = Some(op) THEN 1 ELSE 0

C22_Step ==
    /\ (pc # "summary" /\ pc' \in {"summary", "done"} /\ idx < Len(emails)) =>
          /\ pc = "waiting"
          /\ elog' = <<"quit", "draw_summary">>
    /\ pc \in {"task_confirm", "reply_flow"} =>
          /\ pc' \notin {"done", "error"}
          /\ pc' = "summary" => idx = Len(emails)
    /\ \A op \in InFlight :
          \/ calls'[op].ok + calls'[op].err = Resolved(op) + 1
          \/ pc' = "analyzing" /\ idx' = idx + 1 /\ op # "draft"

LeavesEmail ==
    /\ OnEmail
    /\ \/ idx' = idx + 1
       \/ pc' = "summary" /\ ~(Len(elog') > 0 /\ elog'[1] = "quit")

(***************************************************************************)
(* C23: every email the session advances past received exactly one         *)
(* terminal disposition: either exactly one counter (archived, deleted,    *)
(* tasked, replied, skipped) grew by one in the step that leaves it, or it *)
(* was handed to the browser by Edit in the reply flow; the session never  *)
(* leaves a presented email that received none.                            *)
(***************************************************************************)
C23_Step ==
    LeavesEmail =>
        \/ pc # "reply_flow" /\ total(stats') = total(stats) + 1
        \/ pc = "reply_flow" /\ stats' = stats

C23_ExactlyOneDisposition == [][C23_Step]_vars

Counters == {"archived", "deleted", "tasks_created", "skipped", "replied"}

(***************************************************************************)
(* C24: the five counters of a session start at zero and never decrease;   *)
(* a step changes at most one of them, by exactly one; the total handed to *)
(* the summary is archived + deleted + tasks_created + skipped + replied,  *)
(* and the counters agree with what was done to the mailbox.               *)
(***************************************************************************)
C24_Counters ==
    /\ pc = "fetched" => stats = Stats(0, 0, 0, 0, 0)
    /\ \A f \in Counters : stats[f] \in Nat
    /\ draw_summary_args(stats) =
          <<stats.archived + stats.deleted + stats.tasks_created
               + stats.skipped + stats.replied,
            stats.archived, stats.deleted, stats.tasks_created,
            stats.skipped, stats.replied>>
    /\ stats.deleted = Cardinality(mailbox.trashed)
    /\ stats.archived + stats.tasks_created + stats.replied
          = Cardinality(mailbox.archived)

C24_Step ==
    \/ stats' = stats
    \/ \E f \in Counters : stats' = [stats EXCEPT ![f] = @ + 1]

C24_CountersAccumulate == []C24_Counters /\ [][C24_Step]_vars

C24_Witness ==
    /\ pc = "done"
    /\ Len(emails) = 3
    /\ mailbox = [archived |-> {1}, trashed |-> {2}, replied |-> {}]
    /\ presented = <<1, 2, 3>>
    /\ stats = Stats(1, 1, 0, 1, 0)
    /\ draw_summary_args(stats) = <<3, 1, 1, 0, 1, 0>>
    /\ shown

\* the subsequence of s of the elements that are in the set keep
Filter(s, keep) ==
    LET F[i \in 0..Len(s)] ==
            IF i = 0 THEN << >>
            ELSE IF s[i] \in keep THEN Append(F[i - 1], s[i]) ELSE F[i - 1]
    IN F[Len(s)]

Range(s) == {s[i] : i \in 1..Len(s)}

(***************************************************************************)
(* C25: fetch_unread and fetch_latest return, in the order of the          *)
(* provider's list, exactly the listed messages whose detail fetch         *)
(* succeeded: a message whose detail fetch failed is left out, the others  *)
(* keep their order, and a failed detail fetch never fails the fetch.      *)
(***************************************************************************)
C25_Batch ==
    /\ fetch.pc \in {"fetching", "done"} =>
          LET seen == IF fetch.pc = "done" THEN fetch.listed
                      ELSE SubSeq(fetch.listed, 1, fetch.pos - 1)
          IN fetch.emails = Filter(seen, Range(seen) \ fetch.failed)
    /\ fetch.pc = "failed" => fetch.failed = {} /\ fetch.listed = << >>

C25_Step ==
    fetch.pc = "fetching" =>
        /\ fetch'.pc \in {"fetching", "done"}
        /\ fetch'.pc = "done" <=> fetch.pos = Len(fetch.listed)

C25_FetchBatch == []C25_Batch /\ [][C25_Step]_vars

C25_Witness ==
    /\ fetch.pc = "done"
    /\ fetch.listed = <<3, 1, 2>>
    /\ fetch.failed = {1}
    /\ fetch.emails = <<3, 2>>

Count(log, e) == Cardinality({i \in 1..Len(log) : log[i] = e})

UserDecides == pc \in {"waiting", "task_confirm", "reply_flow"}

(***************************************************************************)
(* C26: no request is retried automatically.  One analysis request is sent *)
(* per visited email; a decision sends each of archive, trash, send and    *)
(* draft at most once; a request is sent only in the step of a user        *)
(* decision (or as the archive that follows a successful send), and never  *)
(* in the step in which a call fails.                                      *)
(***************************************************************************)
C26_Once ==
    /\ idx >= 1 => calls["analyze"].sent = 1
    /\ \A e \in {"archive_call", "trash_call", "send_call", "draft_call"} :
          Count(elog, e) <= 1
    /\ \A op \in Ops : Outstanding(op) \in {0, 1}

C26_Step ==
    IF idx' # idx
    THEN calls' = Sent(NoCalls, "analyze")
    ELSE \A op \in Ops :
           /\ calls'[op].sent \in {calls[op].sent, calls[op].sent + 1}
           /\ calls'[op].sent = calls[op].sent + 1 =>
                 \/ UserDecides
                 \/ /\ pc = "sending"
                    /\ op = "archive"
                    /\ calls'["send"].ok = calls["send"].ok + 1
           /\ (\E failed \in Ops : calls'[failed].err = calls[failed].err + 1)
                 => calls'[op].sent = calls[op].sent

C26_NoAutomaticRetry == []C26_Once /\ [][C26_Step]_vars

C26_Witness ==
    /\ pc = "sending"
    /\ calls["send"] = [sent |-> 2, ok |-> 0, err |-> 1]
    /\ calls["draft"] = [sent |-> 2, ok |-> 2, err |-> 0]
    /\ calls["analyze"].sent = 1
    /\ elog = DraftDecisionLog \o <<"send", "send_call">>

(***************************************************************************)
(* C27 (as amended): when every request returns and the user keeps         *)
(* deciding, the session of a non-empty batch reaches the end-of-session   *)
(* summary or ends with the error of a failed archive or delete request;   *)
(* the summary that is not the result of a quit comes after the last       *)
(* email, and after it no email is presented and no action is awaited.     *)
(***************************************************************************)
C27_Final ==
    /\ pc = "error" => MutationFailed
    /\ (shown /\ ~QuitEarly) =>
          /\ idx = Len(emails)
          /\ presented = [i \in 1..Len(emails) |-> emails[i].id]
    /\ shown <=> pc \in {"summary", "done"} /\ emails # << >>

C27_Step ==
    pc \in {"summary", "done"} =>
        /\ pc' = "done"
        /\ presented' = presented
        /\ idx' = idx

MarkedDefault ==
    {i \in 1..Len(config.accounts) :
        config.default_account = Some(config.accounts[i])}

C28_DefaultIsConfigured ==
    /\ Cardinality(MarkedDefault) <= 1
    /\ Cardinality(config.default_account) <= 1
    /\ config.default_account \subseteq Configured(config)

C28_Witness ==
    /\ config = GmailConfig(<<"work">>, Some("work"))
    /\ acmd = Command("done", "remove", "personal", "ok")

Removes == CommandIdle /\ acmd'.op = "remove" /\ acmd' # acmd

(***************************************************************************)
(* C29: after a successful remove of an account, the account is no longer  *)
(* configured and no token record exists under its id (the other accounts  *)
(* and their token records are as before); the remove of an id that is not *)
(* configured fails and leaves the configuration and every token record as *)
(* they were.                                                              *)
(***************************************************************************)
C29_Step ==
    Removes =>
        LET id == acmd'.id IN
        /\ acmd'.pc = "done"
        /\ acmd'.result = IF id \in Configured(config) THEN "ok" ELSE "err"
        /\ acmd'.result = "ok" =>
              /\ id \notin Configured(config')
              /\ Configured(config') = Configured(config) \ {id}
              /\ id \in Accounts => tokens'[id] = NoFile
              /\ \A a \in Accounts \ {id} : tokens'[a] = tokens[a]
        /\ acmd'.result = "err" =>
              /\ config' = config
              /\ tokens' = tokens

C29_Remove == [][C29_Step]_vars

C29_Witness ==
    /\ acmd = Command("done", "remove", "work", "ok")
    /\ config = GmailConfig(<<"personal">>, Some("personal"))
    /\ tokens["work"] = NoFile
    /\ tokens["personal"] # NoFile

(***************************************************************************)
(* C30: whenever no account command is running, every persisted token      *)
(* record is owned by a configured account: no token record exists under   *)
(* an id that is not the id of a configured account.                       *)
(***************************************************************************)
C30_TokensOwned ==
    CommandIdle =>
        \A a \in Accounts : tokens[a] # NoFile => a \in Configured(config)

(***************************************************************************)
(* C38: when the token record of the account exists but cannot be read or  *)
(* parsed, get_valid_token fails with an error: it sends no refresh grant, *)
(* starts no interactive authorization, returns no token and leaves the    *)
(* record as it is.                                                        *)
(***************************************************************************)
C38_UnreadableRecordFails ==
    Called /\ auth.entry = Unparseable =>
        /\ auth.pc = "failed"
        /\ auth.error = "parse"
        /\ auth.refresh_calls = 0
        /\ auth.oauth_runs = 0
        /\ auth.result = None
        /\ tokens[auth.account] = Unparseable

\* a call failed on an unreadable record after the other account had been
\* authorized
C38_Witness ==
    /\ auth.pc = "failed"
    /\ auth.entry = Unparseable
    /\ \E a \in Accounts : tokens[a].kind = "token"

Adds == CommandIdle /\ acmd'.op = "add" /\ acmd' # acmd

\* the id is empty, longer than 50 characters, or has a character that is
\* neither alphanumeric nor '-' nor '_'
RejectedId(id) ==
    \/ Len(chars(id)) = 0
    \/ Len(chars(id)) > 50
    \/ \E i \in 1..Len(chars(id)) :
           ~ is_alphanumeric(chars(id)[i]) /\ chars(id)[i] \notin {"-", "_"}

(***************************************************************************)
(* C39: account add with an id that is empty, longer than 50 characters or *)
(* has a character other than alphanumerics, '-' and '_' fails at once:    *)
(* no authorization flow starts, no token record is written and the        *)
(* configuration is unchanged.                                             *)
(***************************************************************************)
C39_Step ==
    Adds /\ RejectedId(acmd'.id) =>
        /\ acmd'.pc = "done"
        /\ acmd'.result = "err"
        /\ auth' = auth
        /\ tokens' = tokens
        /\ config' = config

C39_Rejects == [][C39_Step]_vars

\* an id of 51 letters was refused while an account was configured
C39_Witness ==
    /\ acmd = Command("done", "add", "x51", "err")
    /\ config.accounts # << >>

(***************************************************************************)
(* C37: from the empty configuration, after any sequence of account add,   *)
(* remove and set-default commands, a default account is set if and only   *)
(* if an account is configured; the first account added becomes the        *)
(* default, and the removal of the default account makes the first         *)
(* remaining account the default.                                          *)
(***************************************************************************)
C37_DefaultIffConfigured ==
    config.default_account # None <=> config.accounts # << >>

C37_Step ==
    /\ config.accounts = << >> /\ config'.accounts # << >> =>
           config'.default_account = Some(config'.accounts[1])
    /\ \A id \in Configured(config) \ Configured(config') :
           config.default_account = Some(id) =>
               config'.default_account = first(config'.accounts)

C37_Default == []C37_DefaultIffConfigured /\ [][C37_Step]_vars

\* the only account, which was the default, has been removed
C37_Witness ==
    /\ acmd.pc = "done" /\ acmd.op = "remove" /\ acmd.result = "ok"
    /\ config = GmailConfig(<< >>, None)


(***************************************************************************)
(* Properties of message parsing and of the derived texts.                 *)
(***************************************************************************)
RECURSIVE Preorder(_)
RECURSIVE PreorderAll(_)
\* the parts of a tree in depth-first order, a part before its children
Preorder(part) == <<part>> \o PreorderAll(part.parts)

PreorderAll(parts) ==
    IF parts = << >> THEN << >>
    ELSE Preorder(Head(parts)) \o PreorderAll(Tail(parts))

\* the text a part carries, when its data is there and decodes to UTF-8
Content(part) ==
    IF part.data = None \/ ~Unwrap(part.data).base64
       \/ ~Unwrap(part.data).bytes.utf8
    THEN None
    ELSE Some(Unwrap(part.data).bytes.text)

\* the parts of one type that carry a text, in depth-first order
Carrying(payload, mime_type) ==
    LET carries(p) == p.mime_type = mime_type /\ Content(p) # None
    IN  SelectSeq(Preorder(payload), carries)

FirstContent(payload, mime_type) ==
    IF Carrying(payload, mime_type) = << >> THEN None
    ELSE Content(Carrying(payload, mime_type)[1])

(***************************************************************************)
(* C31: once a message is parsed, its plain body is the text of the first  *)
(* text/plain part carrying one in the depth-first order of the part tree, *)
(* and its html body the text of the first such text/html part: a later    *)
(* part of the same type neither replaces nor clears a collected body.     *)
(***************************************************************************)
C31_FirstPartWins ==
    parsed # None =>
        /\ Unwrap(parsed).body_plain = FirstContent(raw.payload, "text/plain")
        /\ Unwrap(parsed).body_html = FirstContent(raw.payload, "text/html")

\* body_text was computed for a prompt of the parsed message
Prompts == prompt.analysis \cup prompt.reply

(***************************************************************************)
(* C32: body_text gives the plain body when it is present and non-empty;   *)
(* otherwise, when the html body is present and non-empty, its rendering   *)
(* to plain text (the snippet if the rendering fails); otherwise the       *)
(* snippet, also when the plain body is present but empty and there is no  *)
(* html body.                                                              *)
(***************************************************************************)
C32_BodyText ==
    \A o \in Prompts :
        LET e == Unwrap(parsed)
        IN  IF e.body_plain # None /\ Unwrap(e.body_plain) # << >>
            THEN o.body = Unwrap(e.body_plain)
            ELSE IF e.body_html # None /\ Unwrap(e.body_html) # << >>
                    /\ o.rendered # None
            THEN /\ o.body = Unwrap(o.rendered)
                 /\ \A i \in 1..Len(o.body) : o.body[i].c \notin {"<", ">"}
            ELSE o.body = e.snippet

\* an empty plain body next to an html body: the rendering is returned
C32_Witness ==
    /\ parsed # None
    /\ Unwrap(parsed).snippet # << >>
    /\ Unwrap(parsed).body_plain = Some(<< >>)
    /\ Unwrap(parsed).body_html = Some(MarkupA)
    /\ \E o \in Prompts : o.body = TextA

RePrefix == <<"R", "e", ":", " ">>

(***************************************************************************)
(* C33: the reply subject rule is idempotent: applied to a subject it has  *)
(* produced, it returns that subject unchanged; and a reply subject that   *)
(* starts with a doubled Re: prefix is the original subject itself, not a  *)
(* product of the rule.                                                    *)
(***************************************************************************)
C33_Idempotent ==
    \A s \in reply :
        /\ reply_subject(s) = s
        /\ starts_with(s, RePrefix \o RePrefix) => s = Unwrap(parsed).subject

\* the rule prefixed a subject, and the result is a fixed point
C33_Witness ==
    /\ parsed # None
    /\ Unwrap(parsed).subject = <<"x">>
    /\ reply = Some(RePrefix \o <<"x">>)

\* the subject starts with r or R, e or E, and a colon
StartsWithReAnyCase(s) ==
    /\ Len(s) >= 3
    /\ s[1] \in {"r", "R"}
    /\ s[2] \in {"e", "E"}
    /\ s[3] = ":"

(***************************************************************************)
(* C34: send_reply sends the original subject unchanged when it starts     *)
(* with the prefix in any letter case (re:, Re:, rE:, RE:), and puts Re:   *)
(* in front of it only otherwise.                                          *)
(***************************************************************************)
C34_AnyCase ==
    \A s \in reply :
        IF StartsWithReAnyCase(Unwrap(parsed).subject)
        THEN s = Unwrap(parsed).subject
        ELSE s = RePrefix \o Unwrap(parsed).subject

(***************************************************************************)
(* Properties of the report of a fetch.                                    *)
(***************************************************************************)
\* the list request met a transport error or a non-success status
ListRequestFailed == fetch.status \in {"transport", "error"}

(***************************************************************************)
(* C35: when the message-list request fails (transport error or            *)
(* non-success status), the fetch returns an error and the command ends    *)
(* with it; the failure is never reported as an empty batch.               *)
(***************************************************************************)
C35_ListFailureIsError ==
    ListRequestFailed => fetch.pc = "failed" /\ fetch.report = "error"

(***************************************************************************)
(* C36: whenever the end-of-session summary has been shown, the counters   *)
(* agree with the effects of the session: deleted is the number of         *)
(* successful trash calls, tasks_created the number of tasks appended to   *)
(* the task store, replied the number of successful send calls, and        *)
(* archived + tasks_created + replied the number of successful archive     *)
(* calls.  Every email of the batch has its own id and is left after a     *)
(* successful call, so the successful calls are counted by the ids the     *)
(* mail API has acted on.                                                  *)
(***************************************************************************)
C36_CountersAgree ==
    shown =>
        /\ stats.deleted = Cardinality(mailbox.trashed)
        /\ stats.tasks_created = Len(tasks)
        /\ stats.replied = Cardinality(mailbox.replied)
        /\ stats.archived + stats.tasks_created + stats.replied
               = Cardinality(mailbox.archived)

\* a summary after one deletion, one task and one reply
C36_Witness ==
    /\ shown
    /\ stats.deleted = 1
    /\ stats.tasks_created = 1
    /\ stats.replied = 1

RECURSIVE CharCount(_)
\* the number of characters of a body
CharCount(s) == IF s = << >> THEN 0 ELSE Head(s).n + CharCount(Tail(s))

RECURSIVE FirstChars(_, _)
\* the first k characters of a body
FirstChars(s, k) ==
    IF k = 0 \/ s = << >> THEN << >>
    ELSE IF Head(s).n <= k
         THEN <<Head(s)>> \o FirstChars(Tail(s), k - Head(s).n)
         ELSE <<Run(Head(s).c, k)>>

\* the whole body within the budget, else its first characters and "..."
ExcerptOf(body, budget) ==
    IF CharCount(body) <= budget THEN body
    ELSE concat(FirstChars(body, budget), Str(".", 3))

(***************************************************************************)
(* C40: the excerpt sent for analysis is the whole body when the body has  *)
(* at most 1500 characters, and otherwise its first 1500 characters        *)
(* followed by an ellipsis (2000 for a draft reply); computing the excerpt *)
(* never aborts the session, whatever characters the body contains.        *)
(***************************************************************************)
C40_Excerpt ==
    /\ \A o \in prompt.analysis :
           /\ o.excerpt.kind = "ok"
           /\ o.excerpt.value = ExcerptOf(o.body, AnalysisBudget)
    /\ \A o \in prompt.reply :
           /\ o.excerpt.kind = "ok"
           /\ o.excerpt.value = ExcerptOf(o.body, ReplyBudget)

=============================================================================
